---- MODULE Spec2Model ----
(***************************************************************************)
(* A model of the identifier allocator and of the keyword, price and sales  *)
(* indexes of the solana-e-commerce program.                                *)
(*                                                                         *)
(* Every instruction is one atomic step.  An instruction that returns Err  *)
(* aborts its transaction: none of the account writes it made reach the    *)
(* stored accounts.  The handler bodies are operators that compute the     *)
(* accounts as the handler leaves them in memory together with its result; *)
(* the action stores them only when the result is Ok.                      *)
(*                                                                         *)
(* An IdChunk bitmap (Vec<u8>, ID_CHUNK_BITMAP_SIZE bytes) is the set of    *)
(* the bit offsets that are 1; bit i lives in byte i \div 8.  The Bloom     *)
(* filters of the keyword index are sets of bit positions in the same way. *)
(***************************************************************************)
EXTENDS Integers, Sequences, FiniteSets, TLC

VARIABLES
    filter,               \* a Bloom filter: byte index -> byte, for the bytes that are not 0
    dest,                 \* a second Bloom filter, the destination of merge
    bloom_added,          \* bookkeeping: the values added to each filter
    global_root,          \* the GlobalIdRoot account
    merchant_id_accounts, \* owner key -> MerchantIdAccount
    id_chunks,            \* chunk address -> IdChunk
    products,             \* ids whose product account exists
    last,                 \* the last instruction and its result
    handed,               \* <<chunk address, id>> handed out and not released since
    allocs,               \* chunk address -> number of ids ever allocated from it
    releases,             \* chunk address -> number of successful release_id calls
    keyword_roots,        \* keyword -> KeywordRoot
    keyword_shards,       \* <<keyword, shard index>> -> KeywordShard
    kw_inserted,          \* <<keyword, id>> ever appended to a shard of the keyword
    price_nodes,          \* price node address -> PriceIndexNode
    price_of,             \* <<price node address, id>> listed -> the price it was inserted with
    sales_nodes           \* sales node address -> SalesIndexNode

vars == <<filter, dest, bloom_added, global_root, merchant_id_accounts, id_chunks, products,
          last, handed, allocs, releases,
          keyword_roots, keyword_shards, kw_inserted,
          price_nodes, price_of, sales_nodes>>

(* The accounts and bookkeeping of the price and sales indexes *)
indexVars == <<price_nodes, price_of, sales_nodes>>

(* The Bloom filters of the utility and their bookkeeping *)
bloomVars == <<filter, dest, bloom_added>>

(* The accounts and bookkeeping of the keyword index *)
keywordVars == <<keyword_roots, keyword_shards, kw_inserted>>

(* The accounts and bookkeeping of the identifier allocator *)
allocatorVars == <<global_root, merchant_id_accounts, id_chunks, products,
                   handed, allocs, releases>>

----------------------------------------------------------------------------
(* Program constants *)

DEFAULT_CHUNK_SIZE == 10000
MAX_CHUNKS_PER_MERCHANT == 100
ID_CHUNK_BITMAP_SIZE == 1250
RESERVED_RANGE == 10000
MAX_BATCH_COUNT == 100

(* Bounds of the model *)

MaxChunkSize == 4      \* small chunk sizes 1..MaxChunkSize are configured
MaxChunkIndex == 2     \* allocate_new_chunk is explored up to this chunk index
NearCap == 98          \* and again from this chunk index on, up to the cap
MaxBatch == 3          \* batch counts 0..MaxBatch (and MAX_BATCH_COUNT + 1)
MaxOverrun == 1        \* allocate_id_in_chunk is explored this far past capacity
MaxReleases == 2       \* successful release_id calls explored per chunk

Owners == {"m1", "m2"}
SmallChunkSizes == 1..MaxChunkSize
ChunkSizes == SmallChunkSizes \cup {DEFAULT_CHUNK_SIZE}
BatchCounts == (0..MaxBatch) \cup {MAX_BATCH_COUNT + 1}


----------------------------------------------------------------------------
(* Addresses: a program-derived address is its seeds *)

to_le_bytes(n) ==
    <<n % 256, (n \div 256) % 256, (n \div 65536) % 256, (n \div 16777216) % 256>>

ChunkPda(owner, seed) == <<"id_chunk", owner, seed>>

MerchantIdPda(owner) == <<"merchant_id", owner>>

(* last: the instruction, whether it returned Ok, its error, the ids it
   returned, the account and the argument it was given, the branch it took *)
NoResult == [op |-> "none", ok |-> TRUE, err |-> "", ids |-> <<>>,
             addr |-> <<>>, arg |-> 0, note |-> ""]

Result(op, ok, err, ids, addr, arg) ==
    [op |-> op, ok |-> ok, err |-> err, ids |-> ids, addr |-> addr, arg |-> arg,
     note |-> ""]

----------------------------------------------------------------------------
(* IdChunk methods *)

(* A capacity that forgets the + 1 *)
capacity_short(c) == c.end_id - c.start_id

(* `as u32` is the identity on the values of the model, all below 2^31 *)
capacity(c) == (c.end_id - c.start_id) + 1

is_id_used(c, local_id) ==
    IF local_id \div 8 >= ID_CHUNK_BITMAP_SIZE THEN FALSE ELSE local_id \in c.bitmap

mark_id_used(c, local_id) ==
    IF local_id \div 8 < ID_CHUNK_BITMAP_SIZE
    THEN [c EXCEPT !.bitmap = @ \cup {local_id}]
    ELSE c

is_full(c) == c.next_available >= capacity(c)

NoSlot == 0 - 1

(* The scan loop `while local_id < limit { if !is_id_used(local_id) ..; local_id += 1 }`:
   the first offset in [local_id, limit) whose bit is clear, or NoSlot *)
RECURSIVE first_free(_, _, _)
first_free(c, local_id, limit) ==
    IF local_id >= limit THEN NoSlot
    ELSE IF ~is_id_used(c, local_id) THEN local_id
    ELSE first_free(c, local_id + 1, limit)

----------------------------------------------------------------------------
(* Handler bodies.  Each returns the result and the accounts as the handler
   leaves them in memory. *)

initialize_system(chunk_size) ==
    [last_merchant_id |-> 0, last_global_id |-> 0, chunk_size |-> chunk_size,
     merchants |-> <<>>]

register_merchant_atomic(root, owner, initial_chunk_key) ==
    LET merchant_id == root.last_merchant_id + 1
        merchant_start_id == merchant_id * RESERVED_RANGE
        initial_chunk ==
            [merchant_id |-> merchant_id,
             chunk_index |-> 0,
             start_id |-> merchant_start_id,
             end_id |-> merchant_start_id + root.chunk_size - 1,
             next_available |-> 0,
             bitmap |-> {}]
    IN  [ok |-> TRUE, err |-> "",
         root |-> [root EXCEPT !.last_merchant_id = merchant_id,
                               !.last_global_id = initial_chunk.end_id + 1,
                               !.merchants = Append(@, MerchantIdPda(owner))],
         merchant |-> [merchant_id |-> merchant_id,
                       last_chunk_index |-> 0,
                       last_local_id |-> 0,
                       active_chunk |-> initial_chunk_key,
                       unused_chunks |-> <<>>],
         chunk |-> initial_chunk]

allocate_new_chunk(root, m, new_chunk_key) ==
    LET chunk_index == m.last_chunk_index + 1
        merchant_start_id == m.merchant_id * RESERVED_RANGE
        chunk_start_id == merchant_start_id + (chunk_index * root.chunk_size)
        new_chunk ==
            [merchant_id |-> m.merchant_id,
             chunk_index |-> chunk_index,
             start_id |-> chunk_start_id,
             end_id |-> chunk_start_id + root.chunk_size - 1,
             next_available |-> 0,
             bitmap |-> {}]
    IN  IF ~(chunk_index <= MAX_CHUNKS_PER_MERCHANT)
        THEN [ok |-> FALSE, err |-> "InvalidShardIndex",
              root |-> root,
              merchant |-> [m EXCEPT !.last_chunk_index = chunk_index],
              chunk |-> new_chunk]
        ELSE [ok |-> TRUE, err |-> "",
              root |-> [root EXCEPT !.last_global_id = new_chunk.end_id + 1],
              merchant |-> [m EXCEPT !.last_chunk_index = chunk_index,
                                     !.unused_chunks = Append(@, m.active_chunk),
                                     !.active_chunk = new_chunk_key],
              chunk |-> new_chunk]

(* An allocation whose writes to the chunk and the cursor are lost *)
generate_product_id_lost_write(m, c) ==
    IF is_full(c)
    THEN [ok |-> FALSE, err |-> "NoAvailableId", ids |-> <<>>,
          merchant |-> m, chunk |-> c]
    ELSE LET local_id == first_free(c, c.next_available, capacity(c))
         IN  IF local_id = NoSlot
             THEN [ok |-> FALSE, err |-> "NoAvailableId", ids |-> <<>>,
                   merchant |-> m, chunk |-> c]
             ELSE [ok |-> TRUE, err |-> "",
                   ids |-> <<c.start_id + local_id>>,
                   merchant |-> m, chunk |-> c]

generate_product_id(m, c) ==
    IF is_full(c)
    THEN [ok |-> FALSE, err |-> "NoAvailableId", ids |-> <<>>,
          merchant |-> m, chunk |-> c]
    ELSE LET local_id == first_free(c, c.next_available, capacity(c))
         IN  IF local_id = NoSlot
             THEN [ok |-> FALSE, err |-> "NoAvailableId", ids |-> <<>>,
                   merchant |-> m, chunk |-> c]
             ELSE [ok |-> TRUE, err |-> "",
                   ids |-> <<c.start_id + local_id>>,
                   merchant |-> [m EXCEPT !.last_local_id = local_id],
                   chunk |-> [mark_id_used(c, local_id)
                                 EXCEPT !.next_available = local_id + 1]]

(* product.rs repeats the body of generate_product_id line for line *)
generate_next_product_id(m, c) == generate_product_id(m, c)

(* The loop of batch_generate_ids: the chunk, cursor, count and ids it ends with *)
RECURSIVE batch_loop(_, _, _, _, _)
batch_loop(c, local_id, allocated, ids, count) ==
    IF ~(allocated < count /\ local_id < capacity(c))
    THEN [chunk |-> c, local_id |-> local_id, allocated |-> allocated, ids |-> ids]
    ELSE IF ~is_id_used(c, local_id)
         THEN batch_loop(mark_id_used(c, local_id), local_id + 1, allocated + 1,
                         Append(ids, c.start_id + local_id), count)
         ELSE batch_loop(c, local_id + 1, allocated, ids, count)

(* A batch without the final require!(allocated == count) *)
batch_generate_ids_partial(m, c, count) ==
    IF ~(count > 0 /\ count <= MAX_BATCH_COUNT)
    THEN [ok |-> FALSE, err |-> "InvalidId", ids |-> <<>>, merchant |-> m, chunk |-> c]
    ELSE LET r == batch_loop(c, c.next_available, 0, <<>>, count)
         IN  [ok |-> TRUE, err |-> "", ids |-> r.ids,
              merchant |-> IF r.allocated > 0
                           THEN [m EXCEPT !.last_local_id = r.local_id - 1]
                           ELSE m,
              chunk |-> IF r.allocated > 0
                        THEN [r.chunk EXCEPT !.next_available = r.local_id]
                        ELSE r.chunk]

batch_generate_ids(m, c, count) ==
    IF ~(count > 0 /\ count <= MAX_BATCH_COUNT)
    THEN [ok |-> FALSE, err |-> "InvalidId", ids |-> <<>>, merchant |-> m, chunk |-> c]
    ELSE LET r == batch_loop(c, c.next_available, 0, <<>>, count)
             chunk == IF r.allocated > 0
                      THEN [r.chunk EXCEPT !.next_available = r.local_id]
                      ELSE r.chunk
             merchant == IF r.allocated > 0
                         THEN [m EXCEPT !.last_local_id = r.local_id - 1]
                         ELSE m
         IN  IF r.allocated = count
             THEN [ok |-> TRUE, err |-> "", ids |-> r.ids,
                   merchant |-> merchant, chunk |-> chunk]
             ELSE [ok |-> FALSE, err |-> "NoAvailableId", ids |-> <<>>,
                   merchant |-> merchant, chunk |-> chunk]

release_id(c, id) ==
    IF ~(id >= c.start_id /\ id <= c.end_id)
    THEN [ok |-> FALSE, err |-> "InvalidId", chunk |-> c]
    ELSE LET offset == id - c.start_id
         IN  IF offset \div 8 >= ID_CHUNK_BITMAP_SIZE
             THEN [ok |-> FALSE, err |-> "IndexOutOfBounds", chunk |-> c]
             ELSE [ok |-> TRUE, err |-> "",
                   chunk |-> [c EXCEPT !.bitmap = @ \ {offset}]]

allocate_id_in_chunk(m, c) ==
    IF c.next_available >= ID_CHUNK_BITMAP_SIZE * 8
    THEN [ok |-> FALSE, err |-> "NoAvailableId", ids |-> <<>>,
          merchant |-> m, chunk |-> c]
    ELSE LET i == first_free(c, c.next_available, ID_CHUNK_BITMAP_SIZE * 8)
         IN  IF i = NoSlot
             THEN [ok |-> FALSE, err |-> "NoAvailableId", ids |-> <<>>,
                   merchant |-> m, chunk |-> c]
             ELSE [ok |-> TRUE, err |-> "",
                   ids |-> <<c.start_id + i>>,
                   merchant |-> [m EXCEPT !.last_local_id = i],
                   chunk |-> [c EXCEPT !.bitmap = @ \cup {i},
                                       !.next_available = i + 1]]

----------------------------------------------------------------------------
(* Instructions *)

(* The ids of a result, as handed out of the chunk at key *)
Handed(key, ids) == {<<key, ids[i]>> : i \in 1..Len(ids)}

(* What an allocating instruction stores: its accounts when it returns Ok,
   nothing when it returns Err *)
AllocStep(op, owner, key, r, arg) ==
    /\ last' = Result(op, r.ok, r.err, r.ids, key, arg)
    /\ IF r.ok
       THEN /\ id_chunks' = [id_chunks EXCEPT ![key] = r.chunk]
            /\ merchant_id_accounts' = [merchant_id_accounts EXCEPT ![owner] = r.merchant]
            /\ handed' = handed \cup Handed(key, r.ids)
            /\ allocs' = [allocs EXCEPT ![key] = @ + Len(r.ids)]
       ELSE UNCHANGED <<id_chunks, merchant_id_accounts, handed, allocs>>
    /\ UNCHANGED <<global_root, releases>>

RegisterMerchantAtomic(owner) ==
    LET key == ChunkPda(owner, <<0>>)
        r == register_merchant_atomic(global_root, owner, key)
    IN  /\ UNCHANGED <<keywordVars, indexVars, bloomVars>>
        /\ owner \notin DOMAIN merchant_id_accounts
        /\ key \notin DOMAIN id_chunks
        /\ global_root' = r.root
        /\ merchant_id_accounts' = merchant_id_accounts @@ (owner :> r.merchant)
        /\ id_chunks' = id_chunks @@ (key :> r.chunk)
        /\ allocs' = allocs @@ (key :> 0)
        /\ releases' = releases @@ (key :> 0)
        /\ last' = Result("register_merchant_atomic", TRUE, "", <<>>, key, 0)
        /\ UNCHANGED <<products, handed>>

AllocateNewChunk(owner) ==
    /\ UNCHANGED <<keywordVars, indexVars, bloomVars>>
    /\ owner \in DOMAIN merchant_id_accounts
    /\ \/ merchant_id_accounts[owner].last_chunk_index < MaxChunkIndex
       \/ merchant_id_accounts[owner].last_chunk_index >= NearCap
    /\ LET m == merchant_id_accounts[owner]
           key == ChunkPda(owner, to_le_bytes(m.last_chunk_index + 1))
           r == allocate_new_chunk(global_root, m, key)
       IN  /\ key \notin DOMAIN id_chunks
           /\ last' = Result("allocate_new_chunk", r.ok, r.err, <<>>, key, 0)
           /\ IF r.ok
              THEN /\ global_root' = r.root
                   /\ merchant_id_accounts' =
                          [merchant_id_accounts EXCEPT ![owner] = r.merchant]
                   /\ id_chunks' = id_chunks @@ (key :> r.chunk)
                   /\ allocs' = allocs @@ (key :> 0)
                   /\ releases' = releases @@ (key :> 0)
              ELSE UNCHANGED <<global_root, merchant_id_accounts, id_chunks,
                               allocs, releases>>
    /\ UNCHANGED <<products, handed>>

(* GenerateId: active_chunk is the account at seeds
   [b"id_chunk", merchant, last_chunk_index.to_le_bytes()] *)
GenerateProductId(owner) ==
    /\ UNCHANGED <<keywordVars, indexVars, bloomVars>>
    /\ owner \in DOMAIN merchant_id_accounts
    /\ LET m == merchant_id_accounts[owner]
           key == ChunkPda(owner, to_le_bytes(m.last_chunk_index))
       IN  /\ key \in DOMAIN id_chunks
           /\ AllocStep("generate_product_id", owner, key,
                        generate_product_id(m, id_chunks[key]), 0)
    /\ UNCHANGED products

(* CreateProductBase: active_chunk.key() == merchant_id_account.active_chunk;
   the product account of the new id is created, which fails when it exists *)
CreateProductBase(owner) ==
    /\ UNCHANGED <<keywordVars, indexVars, bloomVars>>
    /\ owner \in DOMAIN merchant_id_accounts
    /\ LET m == merchant_id_accounts[owner]
           key == m.active_chunk
       IN  /\ key \in DOMAIN id_chunks
           /\ LET r == generate_next_product_id(m, id_chunks[key])
              IN  IF r.ok /\ r.ids[1] \in products
                  THEN /\ last' = Result("create_product_base", FALSE,
                                         "AccountAlreadyInUse", <<>>, key, 0)
                       /\ UNCHANGED <<global_root, merchant_id_accounts, id_chunks,
                                      products, handed, allocs, releases>>
                  ELSE /\ AllocStep("create_product_base", owner, key, r, 0)
                       /\ products' = IF r.ok THEN products \cup {r.ids[1]}
                                      ELSE products

(* BatchGenerate: active_chunk.key() == merchant_account.active_chunk *)
BatchGenerateIds(owner, count) ==
    /\ UNCHANGED <<keywordVars, indexVars, bloomVars>>
    /\ owner \in DOMAIN merchant_id_accounts
    /\ LET m == merchant_id_accounts[owner]
           key == m.active_chunk
       IN  /\ key \in DOMAIN id_chunks
           /\ AllocStep("batch_generate_ids", owner, key,
                        batch_generate_ids(m, id_chunks[key], count), count)
    /\ UNCHANGED products

ReleaseId(key, id) ==
    /\ UNCHANGED <<keywordVars, indexVars, bloomVars>>
    /\ key \in DOMAIN id_chunks
    /\ releases[key] < MaxReleases
    /\ LET r == release_id(id_chunks[key], id)
       IN  /\ last' = Result("release_id", r.ok, r.err, <<>>, key, id)
           /\ IF r.ok
              THEN /\ id_chunks' = [id_chunks EXCEPT ![key] = r.chunk]
                   /\ handed' = handed \ {<<key, id>>}
                   /\ releases' = [releases EXCEPT ![key] = @ + 1]
              ELSE UNCHANGED <<id_chunks, handed, releases>>
    /\ UNCHANGED <<global_root, merchant_id_accounts, products, allocs>>

AllocateIdInChunk(owner, key) ==
    /\ UNCHANGED <<keywordVars, indexVars, bloomVars>>
    /\ owner \in DOMAIN merchant_id_accounts
    /\ key \in DOMAIN id_chunks
    /\ id_chunks[key].next_available < capacity(id_chunks[key]) + MaxOverrun
    /\ AllocStep("allocate_id_in_chunk", owner, key,
                 allocate_id_in_chunk(merchant_id_accounts[owner], id_chunks[key]), 0)
    /\ UNCHANGED products

----------------------------------------------------------------------------
(* The Bloom filter utility and its hash.  A u64 is the tuple of its eight
   bytes, least significant first; a filter maps the index of each byte that is
   not 0 to the byte. *)

BLOOM_FILTER_SIZE == 256
BLOOM_HASH_COUNT == 3

MaxBloomValue == 2     \* the values 0, 2, .., 2 * MaxBloomValue are added to filters

BitOf(byte, i) == (byte \div (2 ^ i)) % 2

(* The byte whose bits are b(0)..b(7) *)
ByteOf(b(_)) ==
    b(0) + 2 * b(1) + 4 * b(2) + 8 * b(3) + 16 * b(4) + 32 * b(5) + 64 * b(6) + 128 * b(7)

ByteOr(x, y) == LET b(i) == IF BitOf(x, i) = 1 \/ BitOf(y, i) = 1 THEN 1 ELSE 0 IN ByteOf(b)

ByteAnd(x, y) == LET b(i) == IF BitOf(x, i) = 1 /\ BitOf(y, i) = 1 THEN 1 ELSE 0 IN ByteOf(b)

ByteXor(x, y) == LET b(i) == IF BitOf(x, i) # BitOf(y, i) THEN 1 ELSE 0 IN ByteOf(b)

(* value as u64, for a value below 2^32 *)
U64Bytes(value) == to_le_bytes(value) \o <<0, 0, 0, 0>>

(* filter[i] *)
ByteAt(f, i) == IF i \in DOMAIN f THEN f[i] ELSE 0

(* filter[i] = byte, for a byte that is not 0 *)
SetByte(f, i, byte) == [j \in DOMAIN f \cup {i} |-> IF j = i THEN byte ELSE f[j]]

(* bit n of h; the bits above 63 are 0 *)
Bit64(h, n) == IF n > 63 THEN 0 ELSE BitOf(h[(n \div 8) + 1], n % 8)

(* h >> s *)
shr(h, s) == [k \in 1..8 |-> LET b(i) == Bit64(h, (8 * (k - 1)) + i + s) IN ByteOf(b)]

(* h ^ g *)
xor(h, g) == [k \in 1..8 |-> ByteXor(h[k], g[k])]

(* The sum of the byte products a_i * b_j with i + j = k, from i on *)
RECURSIVE ColumnSum(_, _, _, _)
ColumnSum(a, b, k, i) ==
    IF i > k THEN 0 ELSE (a[i + 1] * b[(k - i) + 1]) + ColumnSum(a, b, k, i + 1)

RECURSIVE MulFrom(_, _, _, _)
MulFrom(a, b, k, carry) ==
    IF k > 7 THEN <<>>
    ELSE LET t == ColumnSum(a, b, k, 0) + carry
         IN  <<t % 256>> \o MulFrom(a, b, k + 1, t \div 256)

(* u64::wrapping_mul: the low eight bytes of the product *)
wrapping_mul(a, b) == MulFrom(a, b, 0, 0)

(* 0x9e3779b97f4a7c15, 0xbf58476d1ce4e5b9, 0x94d049bb133111eb *)
HashMul1 == <<21, 124, 74, 127, 185, 121, 55, 158>>
HashMul2 == <<185, 229, 228, 28, 109, 71, 88, 191>>
HashMul3 == <<235, 17, 49, 19, 187, 73, 208, 148>>

multi_hash(data, seed) ==
    LET h1 == xor(data, U64Bytes(seed))
        h2 == wrapping_mul(h1, HashMul1)
        h3 == xor(h2, shr(h2, 30))
        h4 == wrapping_mul(h3, HashMul2)
        h5 == xor(h4, shr(h4, 27))
        h6 == wrapping_mul(h5, HashMul3)
    IN  xor(h6, shr(h6, 31))

(* (hash % (BLOOM_FILTER_SIZE * 8)): 2048 divides 2^16, so the two low bytes
   decide *)
BitIndex(hash) == (hash[1] + (256 * hash[2])) % (BLOOM_FILTER_SIZE * 8)

(* BloomFilter::add, from hash i on *)
RECURSIVE bloom_add_from(_, _, _)
bloom_add_from(f, value, i) ==
    IF i >= BLOOM_HASH_COUNT THEN f
    ELSE LET bit_index == BitIndex(multi_hash(value, i))
             byte_index == bit_index \div 8
             bit_offset == bit_index % 8
         IN  bloom_add_from(SetByte(f, byte_index,
                                    ByteOr(ByteAt(f, byte_index), 2 ^ bit_offset)),
                            value, i + 1)

bloom_add(f, value) == bloom_add_from(f, value, 0)

(* BloomFilter::might_contain, from hash i on *)
RECURSIVE bloom_might_contain_from(_, _, _)
bloom_might_contain_from(f, value, i) ==
    IF i >= BLOOM_HASH_COUNT THEN TRUE
    ELSE LET bit_index == BitIndex(multi_hash(value, i))
             byte_index == bit_index \div 8
             bit_offset == bit_index % 8
         IN  IF ByteAnd(ByteAt(f, byte_index), 2 ^ bit_offset) = 0 THEN FALSE
             ELSE bloom_might_contain_from(f, value, i + 1)

bloom_might_contain(f, value) == bloom_might_contain_from(f, value, 0)

bloom_merge_overwrite(d, src) == src

(* BloomFilter::merge *)
bloom_merge(d, src) ==
    [i \in {j \in 0..(BLOOM_FILTER_SIZE - 1) : ByteOr(ByteAt(d, j), ByteAt(src, j)) # 0} |->
        ByteOr(ByteAt(d, i), ByteAt(src, i))]

(* [0u8; BLOOM_FILTER_SIZE] *)
EmptyFilter == <<>>

NoFilters ==
    /\ filter = EmptyFilter
    /\ dest = EmptyFilter
    /\ bloom_added = [filter |-> {}, dest |-> {}, merged |-> {}]

----------------------------------------------------------------------------
(* Spec: owners register and allocate chunks *)

Init ==
    /\ NoFilters
    /\ \E chunk_size \in ChunkSizes : global_root = initialize_system(chunk_size)
    /\ merchant_id_accounts = <<>>
    /\ id_chunks = <<>>
    /\ products = {}
    /\ last = NoResult
    /\ handed = {}
    /\ allocs = <<>>
    /\ releases = <<>>
    /\ keyword_roots = <<>>
    /\ keyword_shards = <<>>
    /\ kw_inserted = {}
    /\ price_nodes = <<>>
    /\ price_of = <<>>
    /\ sales_nodes = <<>>

Next ==
    \/ \E owner \in Owners : RegisterMerchantAtomic(owner)
    \/ \E owner \in Owners : AllocateNewChunk(owner)

Spec == Init /\ [][Next]_vars

----------------------------------------------------------------------------
(* SpecAlloc: one registered owner allocates from and releases into its
   active chunk.  The initial states are the states of Spec after
   register_merchant_atomic, and after register_merchant_atomic and
   allocate_new_chunk. *)

AfterRegister(chunk_size) ==
    LET key == ChunkPda("m1", <<0>>)
        r == register_merchant_atomic(initialize_system(chunk_size), "m1", key)
    IN  [root |-> r.root, merchant |-> r.merchant, chunks |-> (key :> r.chunk)]

AfterAllocate(chunk_size) ==
    LET s == AfterRegister(chunk_size)
        key == ChunkPda("m1", to_le_bytes(1))
        r == allocate_new_chunk(s.root, s.merchant, key)
    IN  [root |-> r.root, merchant |-> r.merchant,
         chunks |-> s.chunks @@ (key :> r.chunk)]

InitFrom(s) ==
    /\ NoFilters
    /\ global_root = s.root
    /\ merchant_id_accounts = ("m1" :> s.merchant)
    /\ id_chunks = s.chunks
    /\ products = {}
    /\ last = NoResult
    /\ handed = {}
    /\ allocs = [k \in DOMAIN s.chunks |-> 0]
    /\ releases = [k \in DOMAIN s.chunks |-> 0]
    /\ keyword_roots = <<>>
    /\ keyword_shards = <<>>
    /\ kw_inserted = {}
    /\ price_nodes = <<>>
    /\ price_of = <<>>
    /\ sales_nodes = <<>>

InitAlloc ==
    \E chunk_size \in SmallChunkSizes :
        InitFrom(AfterRegister(chunk_size)) \/ InitFrom(AfterAllocate(chunk_size))

ActiveKey(owner) == merchant_id_accounts[owner].active_chunk

ReleaseArgs(key) == (id_chunks[key].start_id - 1)..(id_chunks[key].end_id + 1)

NextAlloc ==
    \/ \E owner \in Owners : GenerateProductId(owner)
    \/ \E owner \in Owners : CreateProductBase(owner)
    \/ \E owner \in Owners, count \in BatchCounts : BatchGenerateIds(owner, count)
    \/ \E owner \in DOMAIN merchant_id_accounts :
           \E id \in ReleaseArgs(ActiveKey(owner)) : ReleaseId(ActiveKey(owner), id)
    \/ \E owner \in DOMAIN merchant_id_accounts :
           AllocateIdInChunk(owner, ActiveKey(owner))

SpecAlloc == InitAlloc /\ [][NextAlloc]_vars

(* SpecFill: single allocations only, on active chunks that start empty:
   the chunk of registration, and the chunk of a first allocate_new_chunk.
   The chunk sizes are the small ones and, for the chunk of registration, one
   that has one id more than the bitmap has bits. *)

BigChunkSize == (ID_CHUNK_BITMAP_SIZE * 8) + 1

InitFill ==
    \/ \E chunk_size \in SmallChunkSizes \cup {BigChunkSize} :
           InitFrom(AfterRegister(chunk_size))
    \/ \E chunk_size \in SmallChunkSizes : InitFrom(AfterAllocate(chunk_size))

NextFill ==
    \/ \E owner \in Owners : GenerateProductId(owner)
    \/ \E owner \in Owners : CreateProductBase(owner)

SpecFill == InitFill /\ [][NextFill]_vars

----------------------------------------------------------------------------
(* Properties of the identifier allocator *)

SingleAllocOps == {"generate_product_id", "create_product_base"}

AllocOps == SingleAllocOps \cup {"batch_generate_ids"}

(* The ids handed out of the chunk at key and not released since *)
IdsOf(key) == {h[2] : h \in {x \in handed : x[1] = key}}

(* The clear offsets at or after next_available *)
FreeFrom(c) == {i \in c.next_available..(c.end_id - c.start_id) : i \notin c.bitmap}

Disjoint(a, b) == a.end_id < b.start_id \/ b.end_id < a.start_id

(* C1: after any sequence of register_merchant_atomic and allocate_new_chunk
   calls by any owners, the [start_id, end_id] ranges of any two distinct
   IdChunk records are disjoint. *)
C1_ChunkRangesDisjoint ==
    \A a \in DOMAIN id_chunks : \A b \in DOMAIN id_chunks :
        a # b => Disjoint(id_chunks[a], id_chunks[b])

(* C2: every successful allocation from a chunk (generate_product_id, the
   allocation of create_product_base, batch_generate_ids) returns ids that
   are pairwise distinct and none of which is currently handed out of that
   chunk: an id is not handed out twice without a release in between. *)
C2_AllocatedIdsAreFresh ==
    [][(last'.op \in AllocOps /\ last'.ok) =>
          /\ \A i \in 1..Len(last'.ids) : <<last'.addr, last'.ids[i]>> \notin handed
          /\ \A i \in 1..Len(last'.ids) : \A j \in 1..Len(last'.ids) :
                 i # j => last'.ids[i] # last'.ids[j]]_vars

(* A batch of at least two ids is handed out of a chunk after a release *)
C2_Witness ==
    /\ last.op = "batch_generate_ids"
    /\ last.ok
    /\ Len(last.ids) >= 2
    /\ releases[last.addr] >= 1

(* C3: on the chunk with start_id = 10000 and capacity 4, after four
   allocations (10000..10003) and release_id(10001), when next_available is
   4 and only offset 1 is clear, the next single allocation succeeds and
   returns 10001. *)
C3_ReleasedIdIsReallocated ==
    [][\A key \in DOMAIN id_chunks :
          (/\ id_chunks[key].start_id = 10000
           /\ id_chunks[key].end_id = 10003
           /\ id_chunks[key].next_available = 4
           /\ id_chunks[key].bitmap = {0, 2, 3}
           /\ last'.op \in SingleAllocOps
           /\ last'.addr = key)
          => (last'.ok /\ last'.ids = <<10001>>)]_vars

(* C4: batch_generate_ids(count), 1 <= count <= 100, on a chunk with fewer
   than count clear offsets at or after next_available fails with
   NoAvailableId, and the stored chunk (bitmap, next_available) and the
   owner's cursor (last_local_id) are as before the call. *)
C4_BatchFailsAtomically ==
    [][\A key \in DOMAIN id_chunks :
          (/\ last'.op = "batch_generate_ids"
           /\ last'.addr = key
           /\ last'.arg >= 1
           /\ last'.arg <= MAX_BATCH_COUNT
           /\ Cardinality(FreeFrom(id_chunks[key])) < last'.arg)
          => (/\ ~last'.ok
              /\ last'.err = "NoAvailableId"
              /\ id_chunks' = id_chunks
              /\ merchant_id_accounts' = merchant_id_accounts)]_vars

(* A batch has failed on a chunk that had clear offsets for a part of it *)
C4_Witness ==
    /\ last.op = "batch_generate_ids"
    /\ ~last.ok
    /\ last.err = "NoAvailableId"
    /\ FreeFrom(id_chunks[last.addr]) # {}

(* C5: for every chunk, the number of set bitmap bits equals the number of
   ids ever allocated from it minus the number of successful release_id
   calls on it. *)
C5_BitCountInvariant ==
    \A key \in DOMAIN id_chunks :
        Cardinality(id_chunks[key].bitmap) = allocs[key] - releases[key]

(* C6: for every chunk, next_available <= capacity, where capacity =
   end_id - start_id + 1 is the configured chunk_size. *)
C6_NextAvailableWithinCapacity ==
    \A key \in DOMAIN id_chunks :
        /\ (id_chunks[key].end_id - id_chunks[key].start_id) + 1 = global_root.chunk_size
        /\ id_chunks[key].next_available <= global_root.chunk_size

(* C7: on a chunk that starts empty and sees single allocations only, the
   ids handed out are pairwise distinct and lie in [start_id, end_id], no
   more than chunk_size allocations succeed, and an allocation fails only
   once chunk_size have succeeded, and then with NoAvailableId. *)
C7_ExactlyCapacityAllocations ==
    \A key \in DOMAIN id_chunks :
        /\ allocs[key] <= global_root.chunk_size
        /\ Cardinality(IdsOf(key)) = allocs[key]
        /\ \A id \in IdsOf(key) :
               id >= id_chunks[key].start_id /\ id <= id_chunks[key].end_id
        /\ (last.op \in SingleAllocOps /\ last.addr = key /\ ~last.ok)
               => (last.err = "NoAvailableId" /\ allocs[key] = global_root.chunk_size)

(* The fifth allocation on a chunk of four ids has failed *)
C7_Witness ==
    /\ last.op \in SingleAllocOps
    /\ ~last.ok
    /\ last.err = "NoAvailableId"
    /\ global_root.chunk_size = 4
    /\ allocs[last.addr] = 4
    /\ Cardinality(IdsOf(last.addr)) = 4

----------------------------------------------------------------------------
(* Keyword index *)

BLOOM_SUMMARY_SIZE == 32
SHARD_PUSH_LIMIT == 1000
U64_MAX == 2147483647    \* the largest integer of the model stands for u64::MAX

MaxProductId == 3        \* product ids 1..MaxProductId are indexed

Keywords == {"phone", ""}
ProductIds == 1..MaxProductId

DefaultPubkey == <<>>
None == <<"None">>

RootPda(keyword) == <<"keyword_root", keyword>>

ShardPda(keyword, shard_index) == <<"keyword_shard", keyword, to_le_bytes(shard_index)>>

(* An account as init_if_needed creates it: all bytes zero *)
ZeroedRoot ==
    [keyword |-> "", total_shards |-> 0, first_shard |-> DefaultPubkey,
     last_shard |-> DefaultPubkey, total_products |-> 0, bloom_filter |-> {}]

ZeroedShard ==
    [keyword |-> "", shard_index |-> 0, prev_shard |-> DefaultPubkey,
     next_shard |-> None, product_ids |-> <<>>, min_id |-> 0, max_id |-> 0,
     bloom_summary |-> {}]

Elems(seq) == {seq[i] : i \in 1..Len(seq)}

(* Vec::remove(index) *)
RemoveAt(seq, index) == [i \in 1..(Len(seq) - 1) |-> IF i < index THEN seq[i] ELSE seq[i + 1]]

(* iter().position(|x| x == v), 1-based; 0 when absent *)
Position(seq, v) ==
    IF v \in Elems(seq) THEN CHOOSE i \in 1..Len(seq) :
                                 seq[i] = v /\ \A j \in 1..(i - 1) : seq[j] # v
    ELSE 0

SetMin(S) == CHOOSE x \in S : \A y \in S : x <= y
SetMax(S) == CHOOSE x \in S : \A y \in S : x >= y

(* KeywordRoot: the three probes of the root filter *)
RootHashes(product_id) ==
    {product_id % (BLOOM_FILTER_SIZE * 8),
     (product_id * 31) % (BLOOM_FILTER_SIZE * 8),
     (product_id * 37) % (BLOOM_FILTER_SIZE * 8)}

might_contain(root, product_id) == RootHashes(product_id) \subseteq root.bloom_filter

(* KeywordShard: the two probes of the summary filter *)
SummaryHashes(product_id) ==
    {product_id % (BLOOM_SUMMARY_SIZE * 8),
     (product_id * 31) % (BLOOM_SUMMARY_SIZE * 8)}

recalculate_min_max(shard) ==
    IF shard.product_ids = <<>>
    THEN [shard EXCEPT !.min_id = U64_MAX, !.max_id = 0]
    ELSE [shard EXCEPT !.min_id = SetMin(Elems(shard.product_ids)),
                       !.max_id = SetMax(Elems(shard.product_ids))]

recalculate_bloom_summary(shard) ==
    [shard EXCEPT !.bloom_summary =
        UNION {SummaryHashes(id) : id \in Elems(shard.product_ids)}]

remove_product(shard, product_id) ==
    LET index == Position(shard.product_ids, product_id)
    IN  IF index # 0
        THEN [found |-> TRUE,
              shard |-> recalculate_bloom_summary(recalculate_min_max(
                            [shard EXCEPT !.product_ids = RemoveAt(@, index)]))]
        ELSE [found |-> FALSE, shard |-> shard]

(* The lazy initialisation shared by the two init_if_needed handlers *)
init_root_if_empty(root, keyword, shard_key) ==
    IF root.keyword = ""
    THEN [root EXCEPT !.keyword = keyword,
                      !.total_products = 0,
                      !.total_shards = 1,
                      !.first_shard = shard_key,
                      !.last_shard = shard_key,
                      !.bloom_filter = {}]
    ELSE root

init_shard_if_empty(shard, keyword) ==
    IF shard.keyword = ""
    THEN [shard EXCEPT !.keyword = keyword,
                       !.shard_index = 0,
                       !.prev_shard = DefaultPubkey,
                       !.next_shard = None,
                       !.product_ids = <<>>,
                       !.min_id = 0,
                       !.max_id = 0,
                       !.bloom_summary = {}]
    ELSE shard

initialize_keyword_index_if_needed(root, shard, keyword, shard_key) ==
    [ok |-> TRUE, err |-> "", note |-> "",
     root |-> init_root_if_empty(root, keyword, shard_key),
     shard |-> init_shard_if_empty(shard, keyword)]

(* An insert that does not look for the id in the shard *)
add_product_to_keyword_index_unchecked(root, shard, keyword, product_id, shard_key) ==
    LET root1 == init_root_if_empty(root, keyword, shard_key)
        shard1 == init_shard_if_empty(shard, keyword)
    IN  IF Len(shard1.product_ids) >= SHARD_PUSH_LIMIT
        THEN [ok |-> FALSE, err |-> "ShardIsFull", note |-> "",
              root |-> root1, shard |-> shard1]
        ELSE [ok |-> TRUE, err |-> "", note |-> "added",
              root |-> [root1 EXCEPT !.total_products = @ + 1],
              shard |-> [shard1 EXCEPT !.product_ids = Append(@, product_id)]]

add_product_to_keyword_index_if_needed(root, shard, keyword, product_id, shard_key) ==
    LET root1 == init_root_if_empty(root, keyword, shard_key)
        shard1 == init_shard_if_empty(shard, keyword)
    IN  IF product_id \in Elems(shard1.product_ids)
        THEN [ok |-> TRUE, err |-> "", note |-> "exists",
              root |-> root1, shard |-> shard1]
        ELSE IF Len(shard1.product_ids) >= SHARD_PUSH_LIMIT
        THEN [ok |-> FALSE, err |-> "ShardIsFull", note |-> "",
              root |-> root1, shard |-> shard1]
        ELSE [ok |-> TRUE, err |-> "", note |-> "added",
              root |-> [root1 EXCEPT !.total_products = @ + 1],
              shard |-> [shard1 EXCEPT !.product_ids = Append(@, product_id)]]

(* A remove that decrements total_products before it looks for the id *)
remove_product_from_keyword_index_eager(root, shard, keyword, product_id) ==
    LET root1 == [root EXCEPT !.total_products = IF @ > 0 THEN @ - 1 ELSE 0]
    IN  IF ~(root.keyword = keyword /\ shard.keyword = keyword)
        THEN [ok |-> FALSE, err |-> "InvalidKeyword", note |-> "",
              root |-> root, shard |-> shard]
        ELSE IF ~might_contain(root, product_id)
        THEN [ok |-> TRUE, err |-> "", note |-> "not_in_filter",
              root |-> root1, shard |-> shard]
        ELSE LET r == remove_product(shard, product_id)
             IN  [ok |-> TRUE, err |-> "",
                  note |-> IF r.found THEN "removed" ELSE "not_found",
                  root |-> root1, shard |-> r.shard]

remove_product_from_keyword_index(root, shard, keyword, product_id) ==
    IF ~(root.keyword = keyword /\ shard.keyword = keyword)
    THEN [ok |-> FALSE, err |-> "InvalidKeyword", note |-> "",
          root |-> root, shard |-> shard]
    ELSE IF ~might_contain(root, product_id)
    THEN [ok |-> TRUE, err |-> "", note |-> "not_in_filter",
          root |-> root, shard |-> shard]
    ELSE LET r == remove_product(shard, product_id)
         IN  IF r.found
             THEN [ok |-> TRUE, err |-> "", note |-> "removed",
                   root |-> [root EXCEPT !.total_products =
                                IF @ > 0 THEN @ - 1 ELSE 0],
                   shard |-> r.shard]
             ELSE [ok |-> TRUE, err |-> "", note |-> "not_found",
                   root |-> root, shard |-> r.shard]

(* Instructions of the keyword index *)

RootOrZeroed(keyword) ==
    IF RootPda(keyword) \in DOMAIN keyword_roots
    THEN keyword_roots[RootPda(keyword)] ELSE ZeroedRoot

ShardOrZeroed(keyword) ==
    IF ShardPda(keyword, 0) \in DOMAIN keyword_shards
    THEN keyword_shards[ShardPda(keyword, 0)] ELSE ZeroedShard

(* f with key mapped to value, whether or not key is in its domain *)
Put(f, key, value) == [k \in DOMAIN f \cup {key} |-> IF k = key THEN value ELSE f[k]]

KeywordResult(op, r, keyword, product_id) ==
    [op |-> op, ok |-> r.ok, err |-> r.err, ids |-> <<>>, addr |-> keyword,
     arg |-> product_id, note |-> r.note]

KeywordStep(op, r, keyword, product_id) ==
    /\ last' = KeywordResult(op, r, keyword, product_id)
    /\ IF r.ok
       THEN /\ keyword_roots' = Put(keyword_roots, RootPda(keyword), r.root)
            /\ keyword_shards' = Put(keyword_shards, ShardPda(keyword, 0), r.shard)
            /\ kw_inserted' = IF r.note = "added"
                              THEN kw_inserted \cup {<<keyword, product_id>>}
                              ELSE kw_inserted
       ELSE UNCHANGED keywordVars

InitializeKeywordIndexIfNeeded(keyword) ==
    LET r == initialize_keyword_index_if_needed(
                 RootOrZeroed(keyword), ShardOrZeroed(keyword), keyword,
                 ShardPda(keyword, 0))
    IN  /\ KeywordStep("initialize_keyword_index_if_needed", r, keyword, 0)
        /\ UNCHANGED <<bloomVars, allocatorVars, indexVars>>

AddProductToKeywordIndexIfNeeded(keyword, product_id) ==
    LET r == add_product_to_keyword_index_if_needed(
                 RootOrZeroed(keyword), ShardOrZeroed(keyword), keyword,
                 product_id, ShardPda(keyword, 0))
    IN  /\ KeywordStep("add_product_to_keyword_index_if_needed", r, keyword, product_id)
        /\ UNCHANGED <<bloomVars, allocatorVars, indexVars>>

(* RemoveProductFromKeywordIndex: both accounts must exist *)
RemoveProductFromKeywordIndex(keyword, product_id) ==
    /\ RootPda(keyword) \in DOMAIN keyword_roots
    /\ ShardPda(keyword, 0) \in DOMAIN keyword_shards
    /\ KeywordStep("remove_product_from_keyword_index",
                   remove_product_from_keyword_index(
                       keyword_roots[RootPda(keyword)],
                       keyword_shards[ShardPda(keyword, 0)], keyword, product_id),
                   keyword, product_id)
    /\ UNCHANGED <<bloomVars, allocatorVars, indexVars>>

InitKeyword ==
    /\ NoFilters
    /\ global_root = initialize_system(DEFAULT_CHUNK_SIZE)
    /\ merchant_id_accounts = <<>>
    /\ id_chunks = <<>>
    /\ products = {}
    /\ last = NoResult
    /\ handed = {}
    /\ allocs = <<>>
    /\ releases = <<>>
    /\ keyword_roots = <<>>
    /\ keyword_shards = <<>>
    /\ kw_inserted = {}
    /\ price_nodes = <<>>
    /\ price_of = <<>>
    /\ sales_nodes = <<>>

NextKeyword ==
    \/ \E keyword \in Keywords : InitializeKeywordIndexIfNeeded(keyword)
    \/ \E keyword \in Keywords, product_id \in ProductIds :
           AddProductToKeywordIndexIfNeeded(keyword, product_id)
    \/ \E keyword \in Keywords, product_id \in ProductIds :
           RemoveProductFromKeywordIndex(keyword, product_id)

SpecKeyword == InitKeyword /\ [][NextKeyword]_vars

----------------------------------------------------------------------------
(* Properties of the keyword index *)

(* C8: every id appended to a shard of a keyword has its three bits set in
   the root Bloom filter (might_contain is true) and, while the shard lists
   it, its two bits set in the shard's summary filter. *)
C8_InsertedIdsPassFilters ==
    /\ \A p \in kw_inserted :
           RootPda(p[1]) \in DOMAIN keyword_roots
               => might_contain(keyword_roots[RootPda(p[1])], p[2])
    /\ \A key \in DOMAIN keyword_shards :
           \A id \in Elems(keyword_shards[key].product_ids) :
               SummaryHashes(id) \subseteq keyword_shards[key].bloom_summary

(* C9: remove_product_from_keyword_index(keyword, id) for an id the
   keyword's shard lists removes the id from product_ids and decrements
   total_products by one. *)
C9_RemoveDeletesInsertedId ==
    [][\A keyword \in Keywords :
          (/\ last'.op = "remove_product_from_keyword_index"
           /\ last'.addr = keyword
           /\ ShardPda(keyword, 0) \in DOMAIN keyword_shards
           /\ last'.arg \in Elems(keyword_shards[ShardPda(keyword, 0)].product_ids))
          => (/\ last'.arg \notin Elems(keyword_shards'[ShardPda(keyword, 0)].product_ids)
              /\ keyword_roots'[RootPda(keyword)].total_products =
                     keyword_roots[RootPda(keyword)].total_products - 1)]_vars

(* C10: inserting an id that the keyword's shard already lists succeeds and
   leaves the shard's product_ids and the root's total_products as they
   were. *)
C10_InsertIsIdempotent ==
    [][\A keyword \in Keywords :
          (/\ last'.op = "add_product_to_keyword_index_if_needed"
           /\ last'.addr = keyword
           /\ RootPda(keyword) \in DOMAIN keyword_roots
           /\ ShardPda(keyword, 0) \in DOMAIN keyword_shards
           /\ last'.arg \in Elems(keyword_shards[ShardPda(keyword, 0)].product_ids))
          => (/\ last'.ok
              /\ keyword_shards'[ShardPda(keyword, 0)].product_ids =
                     keyword_shards[ShardPda(keyword, 0)].product_ids
              /\ keyword_roots'[RootPda(keyword)].total_products =
                     keyword_roots[RootPda(keyword)].total_products)]_vars

(* An id was inserted again into a shard that lists it among others *)
C10_Witness ==
    /\ last.op = "add_product_to_keyword_index_if_needed"
    /\ last.ok
    /\ last.note = "exists"
    /\ Len(keyword_shards[ShardPda(last.addr, 0)].product_ids) >= 2
    /\ keyword_roots[RootPda(last.addr)].total_products >= 2

(* C11: remove_product_from_keyword_index for an id never inserted under the
   keyword returns Ok on the not-found path and leaves the shard
   (product_ids, min_id, max_id, bloom_summary) and the root (total_products,
   bloom_filter) as they were. *)
C11_RemoveOfAbsentIdChangesNothing ==
    [][\A keyword \in Keywords :
          (/\ last'.op = "remove_product_from_keyword_index"
           /\ last'.addr = keyword
           /\ <<keyword, last'.arg>> \notin kw_inserted)
          => (/\ last'.ok
              /\ last'.note \in {"not_in_filter", "not_found"}
              /\ keyword_shards'[ShardPda(keyword, 0)] = keyword_shards[ShardPda(keyword, 0)]
              /\ keyword_roots'[RootPda(keyword)] = keyword_roots[RootPda(keyword)])]_vars

(* An id never inserted was removed from a keyword whose shard lists others *)
C11_Witness ==
    /\ last.op = "remove_product_from_keyword_index"
    /\ last.ok
    /\ <<last.addr, last.arg>> \notin kw_inserted
    /\ keyword_shards[ShardPda(last.addr, 0)].product_ids # <<>>
    /\ keyword_roots[RootPda(last.addr)].total_products >= 1

----------------------------------------------------------------------------
(* SpecShardFill: one keyword's shard 0 is filled with the ids 1, 2, 3, ...
   in this order; an id already listed may be inserted again, and the small
   ids may be removed *)

MAX_PRODUCTS_PER_SHARD == 100

MaxOverfill == 1      \* inserts are explored this far past MAX_PRODUCTS_PER_SHARD

ShardLen(keyword) == Len(ShardOrZeroed(keyword).product_ids)

NextShardFill ==
    \/ \E product_id \in 1..(MAX_PRODUCTS_PER_SHARD + MaxOverfill) :
           /\ product_id <= ShardLen("phone") + 1
           /\ AddProductToKeywordIndexIfNeeded("phone", product_id)
    \/ \E product_id \in ProductIds : RemoveProductFromKeywordIndex("phone", product_id)

SpecShardFill == InitKeyword /\ [][NextShardFill]_vars

(* C12: every KeywordShard holds at most MAX_PRODUCTS_PER_SHARD ids, and an
   insert of a new id into a shard that holds that many fails with
   ShardIsFull and changes neither root nor shard. *)
C12_ShardHoldsAtMostMaxProducts ==
    [][/\ \A key \in DOMAIN keyword_shards' :
              Len(keyword_shards'[key].product_ids) <= MAX_PRODUCTS_PER_SHARD
       /\ \A keyword \in Keywords :
              (/\ last'.op = "add_product_to_keyword_index_if_needed"
               /\ last'.addr = keyword
               /\ ShardLen(keyword) >= MAX_PRODUCTS_PER_SHARD
               /\ last'.arg \notin Elems(ShardOrZeroed(keyword).product_ids))
              => (/\ ~last'.ok
                  /\ last'.err = "ShardIsFull"
                  /\ UNCHANGED <<keyword_roots, keyword_shards>>)]_vars

----------------------------------------------------------------------------
(* The chain of shards of a keyword *)

MaxShardIndex == 2    \* shard indexes 0..MaxShardIndex are created and closed
MaxTotalShards == 3   \* create_keyword_shard is explored while total_shards is below
MaxTotalProducts == 2 \* inserts are explored while total_products is below

ShardIndexes == 0..MaxShardIndex

(* An add_shard that moves last_shard for the first shard only *)
add_shard_keeps_last(root, shard_key) ==
    IF root.total_shards = 0
    THEN [root EXCEPT !.first_shard = shard_key, !.last_shard = shard_key,
                      !.total_shards = @ + 1]
    ELSE [root EXCEPT !.total_shards = @ + 1]

add_shard(root, shard_key) ==
    IF root.total_shards = 0
    THEN [root EXCEPT !.first_shard = shard_key, !.last_shard = shard_key,
                      !.total_shards = @ + 1]
    ELSE [root EXCEPT !.last_shard = shard_key, !.total_shards = @ + 1]

(* KeywordShard::initialize; the keywords of the model are within
   MAX_KEYWORD_LENGTH *)
shard_initialize(keyword, shard_index, prev_shard) ==
    [keyword |-> keyword, shard_index |-> shard_index, prev_shard |-> prev_shard,
     next_shard |-> None, product_ids |-> <<>>, min_id |-> U64_MAX, max_id |-> 0,
     bloom_summary |-> {}]

create_keyword_shard(root, prev_shard, keyword, shard_index, prev_key, new_key) ==
    IF ~(root.keyword = keyword /\ prev_shard.keyword = keyword)
    THEN [ok |-> FALSE, err |-> "InvalidKeyword", root |-> root,
          prev_shard |-> prev_shard, new_shard |-> ZeroedShard]
    ELSE IF ~(prev_shard.shard_index + 1 = shard_index)
    THEN [ok |-> FALSE, err |-> "InvalidShardIndex", root |-> root,
          prev_shard |-> prev_shard, new_shard |-> ZeroedShard]
    ELSE [ok |-> TRUE, err |-> "",
          root |-> add_shard(root, new_key),
          prev_shard |-> [prev_shard EXCEPT !.next_shard = new_key],
          new_shard |-> shard_initialize(keyword, shard_index, prev_key)]

close_keyword_shard(shard, keyword, shard_index, force) ==
    IF ~(shard.keyword = keyword)
    THEN [ok |-> FALSE, err |-> "InvalidKeyword"]
    ELSE IF ~(shard.shard_index = shard_index)
    THEN [ok |-> FALSE, err |-> "InvalidShardIndex"]
    ELSE IF ~force /\ shard.product_ids # <<>>
    THEN [ok |-> FALSE, err |-> "KeywordShardNotEmpty"]
    ELSE [ok |-> TRUE, err |-> ""]

(* f without key *)
Drop(f, key) == [k \in DOMAIN f \ {key} |-> f[k]]

ShardResult(op, ok, err, keyword, shard_index, prev_key) ==
    [op |-> op, ok |-> ok, err |-> err, ids |-> <<>>, addr |-> keyword,
     arg |-> shard_index, note |-> "", prev |-> prev_key]

(* What account validation says of the seeds of prev_shard for shard_index 0:
   (shard_index - 1) overflows, which panics or wraps to the index of a shard
   that does not exist *)
UnderflowErrors == {"ProgramFailedToComplete", "ConstraintSeeds", "AccountNotInitialized"}

(* CreateKeywordShard: prev_key is the account the caller passes as
   prev_shard: it must be an account of the program, at the seeds of
   (shard_index - 1); new_shard is init, it must not exist *)
CreateKeywordShard(keyword, shard_index, prev_key) ==
    /\ RootPda(keyword) \in DOMAIN keyword_roots
    /\ keyword_roots[RootPda(keyword)].total_shards < MaxTotalShards
    /\ LET new_key == ShardPda(keyword, shard_index)
           op == "create_keyword_shard"
       IN  IF shard_index = 0
           THEN /\ \E err \in UnderflowErrors :
                       last' = ShardResult(op, FALSE, err, keyword, shard_index, prev_key)
                /\ UNCHANGED keywordVars
           ELSE IF prev_key \notin DOMAIN keyword_shards
           THEN /\ last' = ShardResult(op, FALSE, "AccountNotInitialized", keyword,
                                       shard_index, prev_key)
                /\ UNCHANGED keywordVars
           ELSE IF prev_key # ShardPda(keyword, shard_index - 1)
           THEN /\ last' = ShardResult(op, FALSE, "ConstraintSeeds", keyword,
                                       shard_index, prev_key)
                /\ UNCHANGED keywordVars
           ELSE IF new_key \in DOMAIN keyword_shards
           THEN /\ last' = ShardResult(op, FALSE, "AccountAlreadyInUse", keyword,
                                       shard_index, prev_key)
                /\ UNCHANGED keywordVars
           ELSE LET r == create_keyword_shard(keyword_roots[RootPda(keyword)],
                             keyword_shards[prev_key], keyword, shard_index,
                             prev_key, new_key)
                IN  /\ last' = ShardResult(op, r.ok, r.err, keyword, shard_index, prev_key)
                    /\ IF r.ok
                       THEN /\ keyword_roots' =
                                   Put(keyword_roots, RootPda(keyword), r.root)
                            /\ keyword_shards' =
                                   Put(Put(keyword_shards, prev_key, r.prev_shard),
                                       new_key, r.new_shard)
                            /\ UNCHANGED kw_inserted
                       ELSE UNCHANGED keywordVars
    /\ UNCHANGED <<bloomVars, allocatorVars, indexVars>>

(* CloseKeywordShard: the account at the seeds is closed when the handler
   returns Ok *)
CloseKeywordShard(keyword, shard_index, force) ==
    /\ ShardPda(keyword, shard_index) \in DOMAIN keyword_shards
    /\ LET key == ShardPda(keyword, shard_index)
           r == close_keyword_shard(keyword_shards[key], keyword, shard_index, force)
       IN  /\ last' = ShardResult("close_keyword_shard", r.ok, r.err, keyword,
                                  shard_index, key)
           /\ IF r.ok
              THEN /\ keyword_shards' = Drop(keyword_shards, key)
                   /\ UNCHANGED <<keyword_roots, kw_inserted>>
              ELSE UNCHANGED keywordVars
    /\ UNCHANGED <<bloomVars, allocatorVars, indexVars>>

ShardKeywords == {"phone"}

NextShards ==
    \/ \E keyword \in ShardKeywords : InitializeKeywordIndexIfNeeded(keyword)
    \/ \E keyword \in ShardKeywords, product_id \in {1} :
           /\ RootOrZeroed(keyword).total_products < MaxTotalProducts
           /\ AddProductToKeywordIndexIfNeeded(keyword, product_id)
    \/ \E keyword \in ShardKeywords, shard_index \in ShardIndexes :
           \E prev_key \in {ShardPda(keyword, i) : i \in ShardIndexes} :
               CreateKeywordShard(keyword, shard_index, prev_key)
    \/ \E keyword \in ShardKeywords, shard_index \in ShardIndexes, force \in BOOLEAN :
           CloseKeywordShard(keyword, shard_index, force)

SpecShards == InitKeyword /\ [][NextShards]_vars

(* The shards that exist on the chain from first_shard along next_shard *)
RECURSIVE ChainFrom(_, _)
ChainFrom(key, seen) ==
    IF key \notin DOMAIN keyword_shards \/ key \in seen THEN <<>>
    ELSE <<key>> \o ChainFrom(keyword_shards[key].next_shard, seen \cup {key})

Chain(keyword) == ChainFrom(keyword_roots[RootPda(keyword)].first_shard, {})

(* C13: for every keyword with a root, total_shards is the number of
   existing shards on the chain from first_shard along next_shard, and
   last_shard is the final shard of that chain. *)
C13_TotalShardsMatchesChain ==
    \A keyword \in Keywords :
        RootPda(keyword) \in DOMAIN keyword_roots =>
            /\ keyword_roots[RootPda(keyword)].total_shards = Len(Chain(keyword))
            /\ Chain(keyword) # <<>>
            /\ keyword_roots[RootPda(keyword)].last_shard =
                   Chain(keyword)[Len(Chain(keyword))]

(* C14 as stated: a create_keyword_shard whose prev_shard has
   shard_index + 1 # shard_index fails with InvalidShardIndex and creates and
   links nothing. *)
C14_MismatchFailsWithInvalidShardIndex ==
    [][(/\ last'.op = "create_keyword_shard"
        /\ last'.prev \in DOMAIN keyword_shards
        /\ keyword_shards[last'.prev].shard_index + 1 # last'.arg)
       => (/\ ~last'.ok
           /\ last'.err = "InvalidShardIndex"
           /\ UNCHANGED <<keyword_roots, keyword_shards>>)]_vars

(* C14, amended: create_keyword_shard succeeds only when prev_shard is an
   existing shard with shard_index + 1 = shard_index; otherwise it fails and
   creates and links nothing.  On success prev_shard.next_shard is the new
   shard, the new shard's prev_shard is prev_shard, total_shards has grown by
   one and last_shard is the new shard. *)
C14_CreateKeywordShardChains ==
    [][last'.op = "create_keyword_shard" =>
          LET new_key == ShardPda(last'.addr, last'.arg)
              root_key == RootPda(last'.addr)
              continuous == /\ last'.prev \in DOMAIN keyword_shards
                            /\ keyword_shards[last'.prev].shard_index + 1 = last'.arg
          IN  /\ last'.ok => continuous
              /\ ~continuous => (~last'.ok /\ UNCHANGED <<keyword_roots, keyword_shards>>)
              /\ ~last'.ok => UNCHANGED <<keyword_roots, keyword_shards>>
              /\ last'.ok =>
                     /\ new_key \notin DOMAIN keyword_shards
                     /\ keyword_shards'[last'.prev].next_shard = new_key
                     /\ keyword_shards'[new_key].prev_shard = last'.prev
                     /\ keyword_roots'[root_key].total_shards =
                            keyword_roots[root_key].total_shards + 1
                     /\ keyword_roots'[root_key].last_shard = new_key]_vars

(* Shard 2 was created behind shard 1 *)
C14_Witness ==
    /\ last.op = "create_keyword_shard"
    /\ last.ok
    /\ last.arg = 2
    /\ keyword_roots[RootPda(last.addr)].total_shards >= 3

----------------------------------------------------------------------------
(* Price buckets.  A u64 is the set of the positions of its 1 bits, so that
   the shifts of the code are computed at their width. *)

WORD_BITS == 64

BitPositions == 0..(WORD_BITS - 1)

(* temp >>= 1 *)
shr_one(x) == {i - 1 : i \in x \ {0}}

(* temp > 1 *)
greater_than_one(x) == \E i \in x : i >= 1

(* The loop `while temp > 1 { temp >>= 1; n += 1 }`: the n it ends with *)
RECURSIVE floor_log2(_)
floor_log2(temp) ==
    IF greater_than_one(temp) THEN floor_log2(shr_one(temp)) + 1 ELSE 0

Returned(value) == [panic |-> FALSE, value |-> value]

Panicked == [panic |-> TRUE, value |-> {}]

(* 1u64 << n, as the builds evaluate it: a shift by the width panics where
   overflow is checked and shifts by n modulo the width where it is not *)
shl_one(n) ==
    IF n < WORD_BITS THEN {Returned({n})}
    ELSE {Panicked, Returned({n % WORD_BITS})}

calculate_price_range_start(price) ==
    IF price = {} THEN {Returned({})}
    ELSE IF price = {0} THEN {Returned({0})}
    ELSE shl_one(floor_log2(price))

calculate_price_range_end(price) ==
    IF price = {} THEN {Returned({})}
    ELSE IF price = {0} THEN {Returned({0})}
    ELSE shl_one(floor_log2(price) + 1)

(* a < b, a <= b on u64 *)
Less(a, b) == a # b /\ SetMax((a \ b) \cup (b \ a)) \in b

LessEq(a, b) == a = b \/ Less(a, b)

(* The prices 0, 2^k, 2^k + 1 and 2^(k+1) - 1 *)
PricesU64 ==
    {{}} \cup {{k} : k \in BitPositions} \cup {{0, k} : k \in BitPositions}
         \cup {0..k : k \in BitPositions}

(* A caller evaluates both functions on a price *)
CalculatePriceRange(price) ==
    /\ \E s \in calculate_price_range_start(price) :
       \E e \in calculate_price_range_end(price) :
           last' = [op |-> "calculate_price_range", ok |-> ~s.panic /\ ~e.panic,
                    err |-> IF s.panic \/ e.panic THEN "ProgramFailedToComplete" ELSE "",
                    ids |-> <<>>, addr |-> <<>>, arg |-> 0, note |-> "",
                    price |-> price, start |-> s.value, end |-> e.value]
    /\ UNCHANGED <<bloomVars, allocatorVars, keywordVars, indexVars>>

NextPriceRange == \E price \in PricesU64 : CalculatePriceRange(price)

SpecPriceRange == InitKeyword /\ [][NextPriceRange]_vars

(* C18: for price 0 the functions return (0, 0), for price 1 (1, 1), and for
   every other u64 price they return start = 2^floor(log2 price) and
   end = 2 * start, with start <= price < end. *)
C18_PowerOfTwoBuckets ==
    last.op = "calculate_price_range" =>
        /\ last.ok
        /\ last.price = {} => (last.start = {} /\ last.end = {})
        /\ last.price = {0} => (last.start = {0} /\ last.end = {0})
        /\ last.price \notin {{}, {0}} =>
               /\ last.start = {SetMax(last.price)}
               /\ last.end = {SetMax(last.price) + 1}
               /\ LessEq(last.start, last.price)
               /\ Less(last.price, last.end)

----------------------------------------------------------------------------
(* Price index nodes *)

MaxPrice == 7          \* prices up to MaxPrice are inserted
MaxPriceNodes == 2     \* price nodes are created while fewer than this many exist

IndexedIds == {1, 2}

SHIFT_LIMIT == 30

(* A value below 2^31 as a u64, and back *)
ToU64(n) == {i \in 0..SHIFT_LIMIT : (n \div (2 ^ i)) % 2 = 1}

RECURSIVE FromU64(_)
FromU64(x) == IF x = {} THEN 0 ELSE (2 ^ SetMax(x)) + FromU64(x \ {SetMax(x)})

(* The prices at the edges of the buckets: 0, 1, 2^k and 2^(k+1) - 1 *)
Prices == {price \in 0..MaxPrice :
              price <= 1 \/ Cardinality(ToU64(price)) = 1
                         \/ Cardinality(ToU64(price + 1)) = 1}

PriceNodePda(price_range_start, price_range_end) ==
    <<"price_index", price_range_start, price_range_end>>

(* The account init_if_needed creates: all fields zero *)
ZeroedPriceNode ==
    [price_range_start |-> 0, price_range_end |-> 0, product_ids |-> <<>>, height |-> 0]

(* PriceIndexNode::initialize *)
price_node_initialize(price_range_start, price_range_end) ==
    [price_range_start |-> price_range_start, price_range_end |-> price_range_end,
     product_ids |-> <<>>, height |-> 1]

(* PriceIndexNode::contains_price *)
contains_price(node, price) ==
    price >= node.price_range_start /\ price <= node.price_range_end

(* PriceIndexNode::remove_product *)
price_node_remove_product(node, product_id) ==
    IF product_id \in Elems(node.product_ids)
    THEN [node |-> [node EXCEPT !.product_ids =
                        RemoveAt(node.product_ids, Position(node.product_ids, product_id))],
          removed |-> TRUE]
    ELSE [node |-> node, removed |-> FALSE]

PriceOutcome(ok, err, node, note) == [ok |-> ok, err |-> err, node |-> node, note |-> note]

(* add_product_to_price_index, given the bucket computed from the price; the
   price and the computed bucket are u64 values *)
add_product_to_price_index(price_index, product_id, price, price_range_start, price_range_end, expected_start, expected_end) ==
    IF ~(ToU64(price_range_start) = expected_start
           /\ ToU64(price_range_end) = expected_end)
    THEN PriceOutcome(FALSE, "InvalidPriceRange", price_index, "bucket")
    ELSE LET node == IF price_index.price_range_start = 0 /\ price_index.price_range_end = 0
                     THEN [price_range_start |-> price_range_start,
                           price_range_end |-> price_range_end,
                           product_ids |-> <<>>, height |-> 0]
                     ELSE price_index
         IN  IF ~(LessEq(ToU64(node.price_range_start), price)
                    /\ LessEq(price, ToU64(node.price_range_end)))
             THEN PriceOutcome(FALSE, "InvalidPriceRange", node, "stored_range")
             ELSE IF product_id \in Elems(node.product_ids)
             THEN PriceOutcome(TRUE, "", node, "exists")
             ELSE IF Len(node.product_ids) >= SHARD_PUSH_LIMIT
             THEN PriceOutcome(FALSE, "ShardIsFull", node, "full")
             ELSE PriceOutcome(TRUE, "", [node EXCEPT !.product_ids = Append(@, product_id)],
                               "added")

(* A split that takes the moved ids out of the node and pushes them nowhere *)
split_price_node_no_push(price_node, price_range_start, price_range_end) ==
    LET split_point == (price_range_start + price_range_end) \div 2
        moves(product_id) == ((product_id % 1000) + price_range_start) > split_point
        stays(product_id) == ~moves(product_id)
    IN  [price_node |-> [price_node EXCEPT !.price_range_end = split_point,
                                           !.product_ids = SelectSeq(@, stays)],
         new_price_node |-> price_node_initialize(split_point + 1, price_range_end)]

(* split_price_node: the two nodes as the handler leaves them *)
split_price_node(price_node, price_range_start, price_range_end) ==
    LET split_point == (price_range_start + price_range_end) \div 2
        moves(product_id) == ((product_id % 1000) + price_range_start) > split_point
        stays(product_id) == ~moves(product_id)
    IN  [price_node |-> [price_node EXCEPT !.price_range_end = split_point,
                                           !.product_ids = SelectSeq(@, stays)],
         new_price_node |->
             [price_node_initialize(split_point + 1, price_range_end)
                 EXCEPT !.product_ids = SelectSeq(price_node.product_ids, moves)]]

(* The result of a price instruction: what it returned and the branch it took *)
PriceResult(op, ok, err, addr, product_id, price, note) ==
    [op |-> op, ok |-> ok, err |-> err, ids |-> <<>>, addr |-> <<>>, arg |-> 0,
     note |-> note]

(* The bookkeeping of inserted prices, kept for the ids the nodes list *)
ListedIn(nodes) == {<<k, id>> : k \in DOMAIN nodes, id \in IndexedIds} \cap
                   UNION {{<<k, id>> : id \in Elems(nodes[k].product_ids)} : k \in DOMAIN nodes}

Store(f, key, value) == [k \in DOMAIN f \cup {key} |-> IF k = key THEN value ELSE f[k]]

(* Creating one more price node stays within the bound of the model *)
MayCreatePriceNode(key) ==
    key \in DOMAIN price_nodes \/ Cardinality(DOMAIN price_nodes) < MaxPriceNodes

AddProductToPriceIndex(product_id, price, price_range_start, price_range_end) ==
    LET key == PriceNodePda(price_range_start, price_range_end)
        price_index == IF key \in DOMAIN price_nodes THEN price_nodes[key]
                       ELSE ZeroedPriceNode
    IN  /\ MayCreatePriceNode(key)
        /\ \E s \in calculate_price_range_start(price) :
           \E e \in calculate_price_range_end(price) :
               IF s.panic \/ e.panic
               THEN /\ last' = PriceResult("add_product_to_price_index", FALSE,
                                           "ProgramFailedToComplete", key, product_id,
                                           price, "panic")
                    /\ UNCHANGED <<price_nodes, price_of>>
               ELSE LET r == add_product_to_price_index(price_index, product_id, price,
                                 price_range_start, price_range_end,
                                 s.value, e.value)
                        nodes == Store(price_nodes, key, r.node)
                    IN  /\ last' = PriceResult("add_product_to_price_index", r.ok, r.err,
                                               key, product_id, price, r.note)
                        /\ IF r.ok
                           THEN /\ price_nodes' = nodes
                                /\ price_of' =
                                       [p \in ListedIn(nodes) |->
                                           IF p \in DOMAIN price_of THEN price_of[p]
                                           ELSE FromU64(price)]
                           ELSE UNCHANGED <<price_nodes, price_of>>
        /\ UNCHANGED <<bloomVars, allocatorVars, keywordVars, sales_nodes>>

(* remove_product_from_price_index on the account at `key`: the seeds
   constraint derives the address from the ranges the node stores *)
RemoveProductFromPriceIndex(key, product_id) ==
    /\ IF key \notin DOMAIN price_nodes
       THEN /\ last' = PriceResult("remove_product_from_price_index", FALSE,
                                   "AccountNotInitialized", key, product_id, 0, "")
            /\ UNCHANGED <<price_nodes, price_of>>
       ELSE IF PriceNodePda(price_nodes[key].price_range_start,
                            price_nodes[key].price_range_end) # key
       THEN /\ last' = PriceResult("remove_product_from_price_index", FALSE,
                                   "ConstraintSeeds", key, product_id, 0, "")
            /\ UNCHANGED <<price_nodes, price_of>>
       ELSE LET r == price_node_remove_product(price_nodes[key], product_id)
                nodes == Store(price_nodes, key, r.node)
            IN  /\ last' = PriceResult("remove_product_from_price_index", TRUE, "", key,
                                       product_id, 0,
                                       IF r.removed THEN "removed" ELSE "not_found")
                /\ price_nodes' = nodes
                /\ price_of' = [p \in ListedIn(nodes) |-> price_of[p]]
    /\ UNCHANGED <<bloomVars, allocatorVars, keywordVars, sales_nodes>>

SplitPriceNode(price_range_start, price_range_end) ==
    LET key == PriceNodePda(price_range_start, price_range_end)
        new_key == PriceNodePda(((price_range_start + price_range_end) \div 2) + 1,
                                price_range_end)
    IN  /\ Cardinality(DOMAIN price_nodes) < MaxPriceNodes
        /\ IF key \notin DOMAIN price_nodes
           THEN /\ last' = PriceResult("split_price_node", FALSE, "AccountNotInitialized",
                                       key, 0, 0, "")
                /\ UNCHANGED <<price_nodes, price_of>>
           ELSE IF new_key \in DOMAIN price_nodes
           THEN /\ last' = PriceResult("split_price_node", FALSE, "AccountAlreadyInUse",
                                       key, 0, 0, "")
                /\ UNCHANGED <<price_nodes, price_of>>
           ELSE LET r == split_price_node(price_nodes[key], price_range_start,
                                          price_range_end)
                    nodes == Store(Store(price_nodes, key, r.price_node),
                                   new_key, r.new_price_node)
                IN  /\ last' = [PriceResult("split_price_node", TRUE, "", key, 0, 0, "")
                                   EXCEPT !.addr = key]
                    /\ price_nodes' = nodes
                    /\ price_of' = [p \in ListedIn(nodes) |->
                                       IF p \in DOMAIN price_of THEN price_of[p]
                                       ELSE price_of[<<key, p[2]>>]]
        /\ UNCHANGED <<bloomVars, allocatorVars, keywordVars, sales_nodes>>

(* The buckets of the prices, and the ranges of the nodes that exist *)
BucketOf(price) ==
    LET s == CHOOSE s \in calculate_price_range_start(ToU64(price)) : ~s.panic
        e == CHOOSE e \in calculate_price_range_end(ToU64(price)) : ~e.panic
    IN  <<FromU64(s.value), FromU64(e.value)>>

RangeArgs == {BucketOf(price) : price \in Prices} \cup
             {<<k[2], k[3]>> : k \in DOMAIN price_nodes}

(* The prices of the model as u64 values, and 2^63 *)
HugePrice == {WORD_BITS - 1}

PriceArgs == {ToU64(price) : price \in Prices} \cup {HugePrice}

NextPrice ==
    \/ \E product_id \in IndexedIds, price \in PriceArgs, range \in RangeArgs :
           AddProductToPriceIndex(product_id, price, range[1], range[2])
    \/ \E range \in RangeArgs, product_id \in IndexedIds :
           RemoveProductFromPriceIndex(PriceNodePda(range[1], range[2]), product_id)
    \/ \E range \in RangeArgs : SplitPriceNode(range[1], range[2])

SpecPrice == InitKeyword /\ [][NextPrice]_vars

(* How many times a Vec lists an id *)
Occurrences(seq, id) == Cardinality({i \in 1..Len(seq) : seq[i] = id})

SplitPoint(price_range_start, price_range_end) ==
    (price_range_start + price_range_end) \div 2

(* C15: a successful split_price_node(S, E) leaves every id the node held in
   exactly one of the two resulting nodes, [S, M] and [M+1, E] with
   M = (S + E) / 2, and lists no other id: none is lost, none is duplicated. *)
C15_SplitKeepsEveryIdOnce ==
    [][\A range \in RangeArgs :
          (SplitPriceNode(range[1], range[2]) /\ last'.ok) =>
              LET key == PriceNodePda(range[1], range[2])
                  split_point == SplitPoint(range[1], range[2])
                  new_key == PriceNodePda(split_point + 1, range[2])
              IN  /\ price_nodes'[key].price_range_start = range[1]
                  /\ price_nodes'[key].price_range_end = split_point
                  /\ price_nodes'[new_key].price_range_start = split_point + 1
                  /\ price_nodes'[new_key].price_range_end = range[2]
                  /\ \A id \in IndexedIds :
                         Occurrences(price_nodes'[key].product_ids, id)
                           + Occurrences(price_nodes'[new_key].product_ids, id)
                         = IF id \in Elems(price_nodes[key].product_ids) THEN 1 ELSE 0]_vars

(* A split has just moved an id to the new node and kept another *)
C15_Witness ==
    /\ last.op = "split_price_node"
    /\ last.ok
    /\ price_nodes[last.addr].product_ids # <<>>
    /\ price_nodes[PriceNodePda(SplitPoint(last.addr[2], last.addr[3]) + 1,
                                last.addr[3])].product_ids # <<>>

(* C16: in every reachable state each id a price node lists was inserted with
   a price that lies inside the node's current [price_range_start,
   price_range_end]. *)
C16_ListedIdsLieInRange ==
    \A p \in DOMAIN price_of : contains_price(price_nodes[p[1]], price_of[p])

(* C17: the ranges of two distinct price nodes are disjoint: no price is
   accepted by contains_price of more than one node. *)
C17_RangesDisjoint ==
    \A k1 \in DOMAIN price_nodes, k2 \in DOMAIN price_nodes :
        k1 # k2 =>
            \A price \in 0..(2 * (MaxPrice + 1)) :
                ~(contains_price(price_nodes[k1], price)
                    /\ contains_price(price_nodes[k2], price))

(* (price_range_start, price_range_end) is the bucket of the price:
   (0, 0), (1, 1) or (2^n, 2^(n+1)) with n = floor(log2 price) *)
IsBucketOf(price, price_range_start, price_range_end) ==
    IF price = {} \/ price = {0}
    THEN ToU64(price_range_start) = price /\ ToU64(price_range_end) = price
    ELSE /\ ToU64(price_range_start) = {SetMax(price)}
         /\ ToU64(price_range_end) = {SetMax(price) + 1}

(* The price lies outside the range the node at `key` stores *)
OutsideStoredRange(key, price) ==
    /\ key \in DOMAIN price_nodes
    /\ ~(LessEq(ToU64(price_nodes[key].price_range_start), price)
           /\ LessEq(price, ToU64(price_nodes[key].price_range_end)))

(* C19: add_product_to_price_index(id, price, range_start, range_end) fails
   with InvalidPriceRange and changes no record whenever (range_start,
   range_end) is not the bucket of the price or the price lies outside the
   range the target node stores. *)
C19_BadBucketIsRejected ==
    [][\A product_id \in IndexedIds, price \in PriceArgs, range \in RangeArgs :
          (/\ AddProductToPriceIndex(product_id, price, range[1], range[2])
           /\ \/ ~IsBucketOf(price, range[1], range[2])
              \/ OutsideStoredRange(PriceNodePda(range[1], range[2]), price))
          => /\ ~last'.ok
             /\ last'.err = "InvalidPriceRange"
             /\ UNCHANGED <<price_nodes, price_of>>]_vars

----------------------------------------------------------------------------
(* Sales index nodes *)

TOP_ITEMS_MAX_LEN == 10
TOP_ITEMS_KEPT_ON_UPDATE == 20
TOP_ITEMS_KEPT_ON_ADD == 100
SALES_INTERVAL == 1000

MaxTopOverfill == 1    \* ids are inserted up to this many past TOP_ITEMS_MAX_LEN

SalesNodePda(sales_range_start, sales_range_end) ==
    <<"sales_index", sales_range_start, sales_range_end>>

(* The account init_if_needed creates: all fields zero *)
ZeroedSalesNode ==
    [sales_range_start |-> 0, sales_range_end |-> 0, product_ids |-> <<>>,
     top_items |-> <<>>, height |-> 0]

(* A ProductSales record: the fields the program fills in *)
ProductSales(product_id, sales) == [product_id |-> product_id, sales |-> sales]

(* SalesIndexNode::contains_sales *)
contains_sales(node, sales) ==
    sales >= node.sales_range_start /\ sales <= node.sales_range_end

find_sales_node_for_sales(sales) ==
    LET range_start == (sales \div SALES_INTERVAL) * SALES_INTERVAL
    IN  <<range_start, range_start + SALES_INTERVAL - 1>>

(* Vec::insert(index, item), index 1-based *)
InsertAt(seq, index, item) ==
    [i \in 1..(Len(seq) + 1) |->
        IF i < index THEN seq[i] ELSE IF i = index THEN item ELSE seq[i - 1]]

(* Vec::truncate *)
Truncate(seq, len) == IF Len(seq) > len THEN SubSeq(seq, 1, len) ELSE seq

(* SalesIndexNode::remove_from_top_items *)
remove_from_top_items(top_items, product_id) ==
    LET found == {i \in 1..Len(top_items) : top_items[i].product_id = product_id}
    IN  IF found = {} THEN top_items ELSE RemoveAt(top_items, SetMin(found))

(* binary_search_by on a list in descending order of sales: the index of a
   record with these sales, any of them, or else the place to insert at *)
InsertPositions(top_items, sales) ==
    LET equal == {i \in 1..Len(top_items) : top_items[i].sales = sales}
    IN  IF equal # {} THEN equal
        ELSE {Cardinality({i \in 1..Len(top_items) : top_items[i].sales > sales}) + 1}

(* SalesIndexNode::update_top_items: the lists it can leave *)
update_top_items(top_items, product_id, sales) ==
    LET removed == remove_from_top_items(top_items, product_id)
    IN  {Truncate(InsertAt(removed, pos, ProductSales(product_id, sales)),
                  TOP_ITEMS_KEPT_ON_UPDATE) : pos \in InsertPositions(removed, sales)}

(* sort_by(|a, b| b.sales.cmp(&a.sales)): a stable sort, descending by sales *)
RECURSIVE sort_by_sales_descending(_)
sort_by_sales_descending(items) ==
    IF items = <<>> THEN <<>>
    ELSE LET sorted == sort_by_sales_descending(SubSeq(items, 1, Len(items) - 1))
             item == items[Len(items)]
         IN  InsertAt(sorted,
                      Cardinality({i \in 1..Len(sorted) : sorted[i].sales >= item.sales}) + 1,
                      item)

(* update_top_sales_items *)
update_top_sales_items(top_items, product_id, sales) ==
    Truncate(sort_by_sales_descending(Append(top_items, ProductSales(product_id, sales))),
             TOP_ITEMS_KEPT_ON_ADD)

(* SalesIndexNode::remove_product *)
sales_node_remove_product(node, product_id) ==
    IF product_id \in Elems(node.product_ids)
    THEN [node EXCEPT !.product_ids = RemoveAt(@, Position(@, product_id)),
                      !.top_items = remove_from_top_items(@, product_id)]
    ELSE node

(* SalesIndexNode::add_product, its range already checked: the nodes it can leave *)
sales_node_add_product(node, product_id, sales) ==
    IF product_id \in Elems(node.product_ids) THEN {node}
    ELSE {[node EXCEPT !.product_ids = Append(@, product_id), !.top_items = t] :
             t \in update_top_items(node.top_items, product_id, sales)}

SalesOutcome(ok, err, node, note) == [ok |-> ok, err |-> err, node |-> node, note |-> note]

(* The initialisation both init-if-needed handlers perform on a zero range *)
sales_node_init_if_zero(sales_index, sales_range_start, sales_range_end) ==
    IF sales_index.sales_range_start = 0 /\ sales_index.sales_range_end = 0
    THEN [sales_range_start |-> sales_range_start, sales_range_end |-> sales_range_end,
          product_ids |-> <<>>, top_items |-> <<>>, height |-> 0]
    ELSE sales_index

add_product_to_sales_index_if_needed(sales_index, sales_range_start, sales_range_end, product_id, sales) ==
    LET node == sales_node_init_if_zero(sales_index, sales_range_start, sales_range_end)
    IN  IF ~(sales >= node.sales_range_start /\ sales <= node.sales_range_end)
        THEN SalesOutcome(FALSE, "InvalidSalesRange", node, "range")
        ELSE IF product_id \in Elems(node.product_ids)
        THEN SalesOutcome(TRUE, "", node, "exists")
        ELSE IF Len(node.product_ids) >= SHARD_PUSH_LIMIT
        THEN SalesOutcome(FALSE, "ShardIsFull", node, "full")
        ELSE SalesOutcome(TRUE, "",
                 [node EXCEPT !.product_ids = Append(@, product_id),
                              !.top_items = IF sales > 0
                                            THEN update_top_sales_items(@, product_id, sales)
                                            ELSE @],
                 "added")

(* The result of a sales instruction: what it returned and the branch it took *)
SalesResult(op, ok, err, addr, note) ==
    [op |-> op, ok |-> ok, err |-> err, ids |-> <<>>, addr |-> <<>>, arg |-> 0,
     note |-> note]

SalesNodeOrZeroed(key) ==
    IF key \in DOMAIN sales_nodes THEN sales_nodes[key] ELSE ZeroedSalesNode

InitializeSalesIndexIfNeeded(sales_range_start, sales_range_end) ==
    LET key == SalesNodePda(sales_range_start, sales_range_end)
    IN  /\ sales_nodes' = Store(sales_nodes, key,
                                sales_node_init_if_zero(SalesNodeOrZeroed(key),
                                                        sales_range_start, sales_range_end))
        /\ last' = SalesResult("initialize_sales_index", TRUE, "", key, "")
        /\ UNCHANGED <<bloomVars, allocatorVars, keywordVars, price_nodes, price_of>>

AddProductToSalesIndexIfNeeded(sales_range_start, sales_range_end, product_id, sales) ==
    LET key == SalesNodePda(sales_range_start, sales_range_end)
        r == add_product_to_sales_index_if_needed(SalesNodeOrZeroed(key),
                 sales_range_start, sales_range_end, product_id, sales)
    IN  /\ last' = SalesResult("add_product_to_sales_index", r.ok, r.err, key, r.note)
        /\ sales_nodes' = IF r.ok THEN Store(sales_nodes, key, r.node) ELSE sales_nodes
        /\ UNCHANGED <<bloomVars, allocatorVars, keywordVars, price_nodes, price_of>>

(* remove_product_from_sales_index on the account at `key`: the seeds
   constraint derives the address from the ranges the node stores *)
RemoveProductFromSalesIndex(key, product_id) ==
    /\ IF key \notin DOMAIN sales_nodes
       THEN /\ last' = SalesResult("remove_product_from_sales_index", FALSE,
                                   "AccountNotInitialized", key, "")
            /\ UNCHANGED sales_nodes
       ELSE IF SalesNodePda(sales_nodes[key].sales_range_start,
                            sales_nodes[key].sales_range_end) # key
       THEN /\ last' = SalesResult("remove_product_from_sales_index", FALSE,
                                   "ConstraintSeeds", key, "")
            /\ UNCHANGED sales_nodes
       ELSE /\ last' = SalesResult("remove_product_from_sales_index", TRUE, "", key,
                                   IF product_id \in Elems(sales_nodes[key].product_ids)
                                   THEN "removed" ELSE "not_found")
            /\ sales_nodes' = Store(sales_nodes, key,
                                    sales_node_remove_product(sales_nodes[key], product_id))
    /\ UNCHANGED <<bloomVars, allocatorVars, keywordVars, price_nodes, price_of>>

(* update_product_sales_index on the accounts at old_key and new_key, both
   sales nodes of the program *)
UpdateProductSalesIndex(old_key, new_key, product_id, old_sales, new_sales) ==
    /\ old_key \in DOMAIN sales_nodes
    /\ new_key \in DOMAIN sales_nodes
    /\ IF find_sales_node_for_sales(old_sales) = find_sales_node_for_sales(new_sales)
       THEN LET sales_node == sales_nodes[old_key]
            IN  IF ~(contains_sales(sales_node, old_sales)
                       /\ contains_sales(sales_node, new_sales))
                THEN /\ last' = SalesResult("update_product_sales_index", FALSE,
                                            "InvalidSalesRange", old_key, "same")
                     /\ UNCHANGED sales_nodes
                ELSE \E first \in (IF product_id \in Elems(sales_node.product_ids)
                                   THEN update_top_items(sales_node.top_items,
                                                         product_id, new_sales)
                                   ELSE {sales_node.top_items}) :
                     \E second \in update_top_items(first, product_id, new_sales) :
                         /\ last' = SalesResult("update_product_sales_index", TRUE, "",
                                                old_key, "same")
                         /\ sales_nodes' = Store(sales_nodes, old_key,
                                               [sales_node EXCEPT !.top_items = second])
       ELSE LET old_sales_node == sales_nodes[old_key]
            IN  IF ~contains_sales(old_sales_node, old_sales)
                THEN /\ last' = SalesResult("update_product_sales_index", FALSE,
                                            "InvalidSalesRange", old_key, "old")
                     /\ UNCHANGED sales_nodes
                ELSE LET after_old == Store(sales_nodes, old_key,
                                          sales_node_remove_product(old_sales_node,
                                                                    product_id))
                         new_sales_node == after_old[new_key]
                     IN  IF ~contains_sales(new_sales_node, new_sales)
                         THEN /\ last' = SalesResult("update_product_sales_index", FALSE,
                                                     "InvalidSalesRange", new_key, "new")
                              /\ UNCHANGED sales_nodes
                         ELSE \E added \in sales_node_add_product(new_sales_node,
                                                                  product_id, new_sales) :
                              \E top \in update_top_items(added.top_items, product_id,
                                                          new_sales) :
                                  /\ last' = SalesResult("update_product_sales_index",
                                                         TRUE, "", new_key, "moved")
                                  /\ sales_nodes' = Store(after_old, new_key,
                                                     [added EXCEPT !.top_items = top])
    /\ UNCHANGED <<bloomVars, allocatorVars, keywordVars, price_nodes, price_of>>

(* The sales ranges callers name and the sales values they pass *)
SalesRanges == {find_sales_node_for_sales(0), find_sales_node_for_sales(SALES_INTERVAL)}

SalesValues == {0, 1, 2, SALES_INTERVAL}

(* The id whose sales are inserted, updated and removed at every value *)
UpdatedIds == {1}

(* The node of the first range after n other ids were inserted with sales 1 *)
FillRange == find_sales_node_for_sales(0)

MaxFill == TOP_ITEMS_MAX_LEN - 1 + MaxTopOverfill

RECURSIVE AfterInserts(_)
AfterInserts(n) ==
    IF n = 0 THEN ZeroedSalesNode
    ELSE add_product_to_sales_index_if_needed(AfterInserts(n - 1), FillRange[1],
                                              FillRange[2], n + 1, 1).node

InitSales ==
    /\ NoFilters
    /\ global_root = initialize_system(DEFAULT_CHUNK_SIZE)
    /\ merchant_id_accounts = <<>>
    /\ id_chunks = <<>>
    /\ products = {}
    /\ last = NoResult
    /\ handed = {}
    /\ allocs = <<>>
    /\ releases = <<>>
    /\ keyword_roots = <<>>
    /\ keyword_shards = <<>>
    /\ kw_inserted = {}
    /\ price_nodes = <<>>
    /\ price_of = <<>>
    /\ \E n \in 0..MaxFill :
           sales_nodes = IF n = 0 THEN <<>>
                         ELSE (SalesNodePda(FillRange[1], FillRange[2]) :> AfterInserts(n))

NextSales ==
    \/ \E range \in SalesRanges : InitializeSalesIndexIfNeeded(range[1], range[2])
    \/ \E range \in SalesRanges, product_id \in UpdatedIds, sales \in SalesValues :
           AddProductToSalesIndexIfNeeded(range[1], range[2], product_id, sales)
    \/ \E range \in SalesRanges, product_id \in UpdatedIds :
           RemoveProductFromSalesIndex(SalesNodePda(range[1], range[2]), product_id)
    \/ \E old \in SalesRanges, new \in SalesRanges, product_id \in UpdatedIds,
          old_sales \in SalesValues, new_sales \in SalesValues :
           UpdateProductSalesIndex(SalesNodePda(old[1], old[2]),
                                   SalesNodePda(new[1], new[2]),
                                   product_id, old_sales, new_sales)

SpecSales == InitSales /\ [][NextSales]_vars

SortedDescending(top_items) ==
    \A i \in 1..Len(top_items), j \in 1..Len(top_items) :
        i < j => top_items[i].sales >= top_items[j].sales

(* C20: after any sequence of sales inserts, updates and removes, top_items
   of every sales node is in descending order of sales and no longer than
   the length declared for it in the record. *)
C20_TopItemsSortedAndCapped ==
    \A key \in DOMAIN sales_nodes :
        /\ SortedDescending(sales_nodes[key].top_items)
        /\ Len(sales_nodes[key].top_items) <= TOP_ITEMS_MAX_LEN

----------------------------------------------------------------------------
(* C21: GlobalIdRoot.last_global_id is a high-water mark: no step decreases
   it, and after every register_merchant_atomic or allocate_new_chunk it is
   at least end_id + 1 of every chunk created so far by any owner. *)
C21_LastGlobalIdIsHighWaterMark ==
    [][/\ global_root'.last_global_id >= global_root.last_global_id
       /\ \A key \in DOMAIN id_chunks' :
              global_root'.last_global_id >= id_chunks'[key].end_id + 1]_vars

(* C22: every successful product creation assigns the id
   GlobalIdRoot.last_global_id + 1, with last_global_id as it was just before
   the call, and leaves last_global_id equal to the new product's id. *)
C22_ProductIdFollowsLastGlobalId ==
    [][(last'.op = "create_product_base" /\ last'.ok /\ products' # products) =>
          /\ last'.ids = <<global_root.last_global_id + 1>>
          /\ global_root'.last_global_id = global_root.last_global_id + 1]_vars

(* C23: initialize_keyword_index_if_needed(keyword), called for a keyword
   whose root and shard 0 already exist, leaves both records unchanged, for
   every keyword and after any sequence of inserts. *)
C23_InitializeIsIdempotent ==
    [][\A keyword \in Keywords :
          (/\ RootPda(keyword) \in DOMAIN keyword_roots
           /\ ShardPda(keyword, 0) \in DOMAIN keyword_shards
           /\ InitializeKeywordIndexIfNeeded(keyword))
          => UNCHANGED <<keyword_roots, keyword_shards>>]_vars

----------------------------------------------------------------------------
(* Keyword search *)

MaxOffset == 2         \* search offsets 0..MaxOffset
MaxLimit == 2          \* search limits 0..MaxLimit

(* search_keyword_index: its result and the ids it returns *)
search_keyword_index(keyword_root, keyword, offset, limit) ==
    IF keyword_root.keyword # keyword
    THEN [ok |-> FALSE, err |-> "InvalidKeyword", ids |-> <<>>]
    ELSE IF keyword_root.total_products = 0
    THEN [ok |-> TRUE, err |-> "", ids |-> <<>>]
    ELSE [ok |-> TRUE, err |-> "", ids |-> <<>>]

(* SearchKeywordIndex: the root account must exist; nothing is written *)
SearchKeywordIndex(keyword, offset, limit) ==
    /\ RootPda(keyword) \in DOMAIN keyword_roots
    /\ LET r == search_keyword_index(keyword_roots[RootPda(keyword)], keyword,
                                     offset, limit)
       IN  last' = [op |-> "search_keyword_index", ok |-> r.ok, err |-> r.err,
                    ids |-> r.ids, addr |-> keyword, arg |-> 0, note |-> ""]
    /\ UNCHANGED <<bloomVars, allocatorVars, keywordVars, indexVars>>

NextSearch ==
    \/ \E keyword \in Keywords : InitializeKeywordIndexIfNeeded(keyword)
    \/ \E keyword \in Keywords, product_id \in ProductIds :
           AddProductToKeywordIndexIfNeeded(keyword, product_id)
    \/ \E keyword \in Keywords, product_id \in ProductIds :
           RemoveProductFromKeywordIndex(keyword, product_id)
    \/ \E keyword \in Keywords, offset \in 0..MaxOffset, limit \in 0..MaxLimit :
           SearchKeywordIndex(keyword, offset, limit)

SpecSearch == InitKeyword /\ [][NextSearch]_vars

(* The ids a Vec holds at the positions [offset, offset + limit), 0-based *)
Page(ids, offset, limit) ==
    [i \in 1..(IF Len(ids) <= offset THEN 0
               ELSE IF Len(ids) - offset < limit THEN Len(ids) - offset
               ELSE limit) |-> ids[offset + i]]

(* C24: search_keyword_index(keyword, offset, limit) returns the ids stored
   in the keyword's shard at the positions [offset, offset + limit), in
   stored order. *)
C24_SearchReturnsStoredPage ==
    [][\A keyword \in Keywords, offset \in 0..MaxOffset, limit \in 0..MaxLimit :
          (/\ ShardPda(keyword, 0) \in DOMAIN keyword_shards
           /\ SearchKeywordIndex(keyword, offset, limit))
          => /\ last'.ok
             /\ last'.ids = Page(keyword_shards[ShardPda(keyword, 0)].product_ids,
                                 offset, limit)]_vars

----------------------------------------------------------------------------
(* Closing keyword roots, keyword shards and merchant id accounts *)

close_keyword_root_unchecked(keyword_root, keyword, force) ==
    IF ~(keyword_root.keyword = keyword)
    THEN [ok |-> FALSE, err |-> "InvalidKeyword"]
    ELSE [ok |-> TRUE, err |-> ""]

close_keyword_root(keyword_root, keyword, force) ==
    IF ~(keyword_root.keyword = keyword)
    THEN [ok |-> FALSE, err |-> "InvalidKeyword"]
    ELSE IF ~force /\ ~(keyword_root.total_products = 0)
    THEN [ok |-> FALSE, err |-> "KeywordIndexNotEmpty"]
    ELSE [ok |-> TRUE, err |-> ""]

close_merchant_id_account(merchant_id_account, force) ==
    IF ~force /\ ~(merchant_id_account.unused_chunks = <<>>)
    THEN [ok |-> FALSE, err |-> "MerchantIdAccountNotEmpty"]
    ELSE [ok |-> TRUE, err |-> ""]

(* The result of a close: note tells whether the force flag was set *)
CloseResult(op, r, addr, force) ==
    [op |-> op, ok |-> r.ok, err |-> r.err, ids |-> <<>>, addr |-> addr,
     arg |-> 0, note |-> IF force THEN "force" ELSE ""]

(* CloseKeywordRoot: the account at the seeds is closed when the handler
   returns Ok *)
CloseKeywordRoot(keyword, force) ==
    /\ RootPda(keyword) \in DOMAIN keyword_roots
    /\ LET key == RootPda(keyword)
           r == close_keyword_root(keyword_roots[key], keyword, force)
       IN  /\ last' = CloseResult("close_keyword_root", r, key, force)
           /\ IF r.ok
              THEN /\ keyword_roots' = Drop(keyword_roots, key)
                   /\ UNCHANGED <<keyword_shards, kw_inserted>>
              ELSE UNCHANGED keywordVars
    /\ UNCHANGED <<bloomVars, allocatorVars, indexVars>>

(* CloseMerchantIdAccount: the account at the seeds of merchant_key is
   closed when the handler returns Ok *)
CloseMerchantIdAccount(merchant_key, force) ==
    /\ merchant_key \in DOMAIN merchant_id_accounts
    /\ LET r == close_merchant_id_account(merchant_id_accounts[merchant_key], force)
       IN  /\ last' = CloseResult("close_merchant_id_account", r,
                                  MerchantIdPda(merchant_key), force)
           /\ IF r.ok
              THEN merchant_id_accounts' = Drop(merchant_id_accounts, merchant_key)
              ELSE UNCHANGED merchant_id_accounts
    /\ UNCHANGED <<global_root, id_chunks, products, handed, allocs, releases>>
    /\ UNCHANGED <<keywordVars, indexVars, bloomVars>>

NextClose ==
    \/ \E keyword \in ShardKeywords : InitializeKeywordIndexIfNeeded(keyword)
    \/ \E keyword \in ShardKeywords, product_id \in {1} :
           /\ RootOrZeroed(keyword).total_products < MaxTotalProducts
           /\ AddProductToKeywordIndexIfNeeded(keyword, product_id)
    \/ \E keyword \in ShardKeywords, product_id \in {1} :
           RemoveProductFromKeywordIndex(keyword, product_id)
    \/ \E keyword \in ShardKeywords, force \in BOOLEAN : CloseKeywordRoot(keyword, force)
    \/ \E keyword \in ShardKeywords, force \in BOOLEAN : CloseKeywordShard(keyword, 0, force)
    \/ \E owner \in Owners : AllocateNewChunk(owner)
    \/ \E owner \in Owners, force \in BOOLEAN : CloseMerchantIdAccount(owner, force)

SpecClose == InitAlloc /\ [][NextClose]_vars

(* C25: without the force flag a close fails with its NotEmpty error and
   closes nothing unless the record is empty (total_products = 0,
   product_ids empty, unused_chunks empty); with the force flag, and on an
   empty record, it closes the record. *)
C25_CloseRequiresEmptyOrForce ==
    [][/\ \A keyword \in ShardKeywords, force \in BOOLEAN :
              CloseKeywordRoot(keyword, force) =>
                  IF force \/ keyword_roots[RootPda(keyword)].total_products = 0
                  THEN last'.ok /\ RootPda(keyword) \notin DOMAIN keyword_roots'
                  ELSE /\ ~last'.ok /\ last'.err = "KeywordIndexNotEmpty"
                       /\ keyword_roots' = keyword_roots
       /\ \A keyword \in ShardKeywords, force \in BOOLEAN :
              CloseKeywordShard(keyword, 0, force) =>
                  IF force \/ keyword_shards[ShardPda(keyword, 0)].product_ids = <<>>
                  THEN last'.ok /\ ShardPda(keyword, 0) \notin DOMAIN keyword_shards'
                  ELSE /\ ~last'.ok /\ last'.err = "KeywordShardNotEmpty"
                       /\ keyword_shards' = keyword_shards
       /\ \A owner \in Owners, force \in BOOLEAN :
              CloseMerchantIdAccount(owner, force) =>
                  IF force \/ merchant_id_accounts[owner].unused_chunks = <<>>
                  THEN last'.ok /\ owner \notin DOMAIN merchant_id_accounts'
                  ELSE /\ ~last'.ok /\ last'.err = "MerchantIdAccountNotEmpty"
                       /\ merchant_id_accounts' = merchant_id_accounts]_vars

(* A close without the force flag has been refused for a keyword root that
   counts a product, and the root is still there *)
C25_Witness ==
    /\ last.op = "close_keyword_root"
    /\ ~last.ok
    /\ last.err = "KeywordIndexNotEmpty"
    /\ last.note = ""
    /\ \E keyword \in ShardKeywords :
           /\ last.addr = RootPda(keyword)
           /\ RootPda(keyword) \in DOMAIN keyword_roots
           /\ keyword_roots[RootPda(keyword)].total_products > 0

----------------------------------------------------------------------------
(* SpecCap: an owner that is close to MAX_CHUNKS_PER_MERCHANT.  The initial
   states are the states of Spec after register_merchant_atomic and n calls
   of allocate_new_chunk by the same owner. *)

(* s after the calls of allocate_new_chunk for the chunk indexes i..n *)
RECURSIVE AllocateChunks(_, _, _)
AllocateChunks(s, i, n) ==
    IF i > n \/ s.merchant.last_chunk_index # i - 1 THEN s
    ELSE LET key == ChunkPda("m1", to_le_bytes(i))
             r == allocate_new_chunk(s.root, s.merchant, key)
         IN  AllocateChunks([root |-> r.root, merchant |-> r.merchant,
                             chunks |-> s.chunks @@ (key :> r.chunk)], i + 1, n)

AfterChunks(chunk_size, n) == AllocateChunks(AfterRegister(chunk_size), 1, n)

InitCap ==
    \E chunk_size \in SmallChunkSizes, n \in NearCap..(MAX_CHUNKS_PER_MERCHANT - 1) :
        InitFrom(AfterChunks(chunk_size, n))

NextCap ==
    \/ \E owner \in Owners : AllocateNewChunk(owner)
    \/ \E owner \in Owners : GenerateProductId(owner)

SpecCap == InitCap /\ [][NextCap]_vars

(* The chunks an owner has *)
ChunksOf(owner) == {key \in DOMAIN id_chunks : key[2] = owner}

(* C26: an owner never has more than MAX_CHUNKS_PER_MERCHANT chunks. *)
C26_AtMostMaxChunks ==
    \A owner \in DOMAIN merchant_id_accounts :
        Cardinality(ChunksOf(owner)) <= MAX_CHUNKS_PER_MERCHANT

----------------------------------------------------------------------------
(* SpecBloom: values are added to two filters and one is merged into the
   other *)

(* 0 and 2 share two of their three probes, 4 shares none with them *)
BloomValues == {2 * v : v \in 0..MaxBloomValue}

BloomAdd(value) ==
    /\ filter' = bloom_add(filter, U64Bytes(value))
    /\ bloom_added' = [bloom_added EXCEPT !.filter = @ \cup {value}]
    /\ UNCHANGED <<dest, last, allocatorVars, keywordVars, indexVars>>

BloomAddDest(value) ==
    /\ dest' = bloom_add(dest, U64Bytes(value))
    /\ bloom_added' = [bloom_added EXCEPT !.dest = @ \cup {value}]
    /\ UNCHANGED <<filter, last, allocatorVars, keywordVars, indexVars>>

BloomMerge ==
    /\ dest' = bloom_merge(dest, filter)
    /\ bloom_added' = [bloom_added EXCEPT !.dest = @ \cup bloom_added.filter,
                                          !.merged = @ \cup bloom_added.filter]
    /\ UNCHANGED <<filter, last, allocatorVars, keywordVars, indexVars>>

NextBloom ==
    \/ \E value \in BloomValues : BloomAdd(value)
    \/ \E value \in BloomValues : BloomAddDest(value)
    \/ BloomMerge

SpecBloom == InitKeyword /\ [][NextBloom]_vars

(* C27: might_contain(filter, v) is true for every v added to the filter,
   whatever was added after it, and might_contain(dest, v) is true for every
   v added to dest or held by a filter merged into dest; merge sets every
   bit of dest to the OR of the bits of the two filters. *)
C27_NoFalseNegatives ==
    /\ [](/\ \A value \in bloom_added.filter :
                 bloom_might_contain(filter, U64Bytes(value))
          /\ \A value \in bloom_added.dest :
                 bloom_might_contain(dest, U64Bytes(value)))
    /\ [][BloomMerge =>
             \A i \in 0..(BLOOM_FILTER_SIZE - 1), bit \in 0..7 :
                 (BitOf(ByteAt(dest', i), bit) = 1) <=>
                     (BitOf(ByteAt(dest, i), bit) = 1 \/ BitOf(ByteAt(filter, i), bit) = 1)]_vars

(* dest holds values of its own and the values of a filter merged into it,
   and that filter has taken a further value since *)
C27_Witness ==
    /\ bloom_added.merged # {}
    /\ bloom_added.filter \ bloom_added.merged # {}
    /\ bloom_added.dest \ bloom_added.filter # {}
    /\ filter # dest

----------------------------------------------------------------------------
(* C28: every price node and every sales node is stored at the address
   derived from the range it stores. *)
C28_NodesAtTheAddressOfTheirRange ==
    /\ \A key \in DOMAIN price_nodes :
           key = PriceNodePda(price_nodes[key].price_range_start,
                              price_nodes[key].price_range_end)
    /\ \A key \in DOMAIN sales_nodes :
           key = SalesNodePda(sales_nodes[key].sales_range_start,
                              sales_nodes[key].sales_range_end)

----------------------------------------------------------------------------
(* The ids a sales node lists; none when the account does not exist *)
ListedAt(nodes, key) == IF key \in DOMAIN nodes THEN Elems(nodes[key].product_ids) ELSE {}

(* The node the handler takes as the one covering new_sales: old_sales_node
   when both values fall in one range, new_sales_node otherwise *)
TargetKey(old_key, new_key, old_sales, new_sales) ==
    IF find_sales_node_for_sales(old_sales) = find_sales_node_for_sales(new_sales)
    THEN old_key ELSE new_key

(* C29: update_product_sales_index is all-or-nothing across the two nodes:
   after it succeeds the id is listed in the node covering new_sales and,
   when the ranges differ, no longer in the node covering old_sales; when it
   fails both nodes are unchanged. *)
C29_UpdateIsAllOrNothing ==
    [][\A old \in SalesRanges, new \in SalesRanges, product_id \in UpdatedIds,
          old_sales \in SalesValues, new_sales \in SalesValues :
          LET old_key == SalesNodePda(old[1], old[2])
              new_key == SalesNodePda(new[1], new[2])
              target == TargetKey(old_key, new_key, old_sales, new_sales)
          IN  UpdateProductSalesIndex(old_key, new_key, product_id, old_sales, new_sales)
              => IF last'.ok
                 THEN /\ product_id \in ListedAt(sales_nodes', target)
                      /\ old_key # target => product_id \notin ListedAt(sales_nodes', old_key)
                 ELSE sales_nodes' = sales_nodes]_vars

----------------------------------------------------------------------------
(* Every record of `before` is still there in `after` and lists every id it
   listed *)
KeepsIds(before, after) ==
    \A key \in DOMAIN before :
        /\ key \in DOMAIN after
        /\ Elems(before[key].product_ids) \subseteq Elems(after[key].product_ids)

(* C30: an insert never discards an id that a keyword shard, a price node or
   a sales node stored before the call. *)
C30_InsertKeepsStoredIds ==
    [][/\ last'.op = "add_product_to_keyword_index_if_needed"
              => KeepsIds(keyword_shards, keyword_shards')
       /\ last'.op = "add_product_to_price_index"
              => KeepsIds(price_nodes, price_nodes')
       /\ last'.op = "add_product_to_sales_index"
              => KeepsIds(sales_nodes, sales_nodes')]_vars

----------------------------------------------------------------------------
(* Switching to an unused chunk *)

(* switch_or_allocate_chunk: Vec::pop takes the last entry of unused_chunks;
   the address of a new chunk is derived from the payer *)
switch_or_allocate_chunk(m, root, payer) ==
    IF m.unused_chunks # <<>>
    THEN LET next_chunk == m.unused_chunks[Len(m.unused_chunks)]
         IN  [ok |-> TRUE, err |-> "", key |-> next_chunk, root |-> root,
              merchant |-> [m EXCEPT !.unused_chunks = SubSeq(@, 1, Len(@) - 1),
                                     !.active_chunk = next_chunk,
                                     !.last_chunk_index = @ + 1]]
    ELSE LET new_chunk_index == m.last_chunk_index + 1
             chunk_key == ChunkPda(payer, to_le_bytes(new_chunk_index))
         IN  IF ~(new_chunk_index <= MAX_CHUNKS_PER_MERCHANT)
             THEN [ok |-> FALSE, err |-> "InvalidShardIndex", key |-> <<>>,
                   root |-> root, merchant |-> m]
             ELSE [ok |-> TRUE, err |-> "", key |-> chunk_key,
                   root |-> [root EXCEPT !.last_global_id = @ + root.chunk_size],
                   merchant |-> [m EXCEPT !.active_chunk = chunk_key,
                                          !.last_chunk_index = new_chunk_index]]

SwitchOrAllocateChunk(owner, payer) ==
    /\ UNCHANGED <<keywordVars, indexVars, bloomVars>>
    /\ owner \in DOMAIN merchant_id_accounts
    /\ \/ merchant_id_accounts[owner].last_chunk_index < MaxChunkIndex
       \/ merchant_id_accounts[owner].last_chunk_index >= NearCap
    /\ LET r == switch_or_allocate_chunk(merchant_id_accounts[owner], global_root, payer)
       IN  /\ last' = Result("switch_or_allocate_chunk", r.ok, r.err, <<>>, r.key, 0)
           /\ global_root' = r.root
           /\ merchant_id_accounts' = [merchant_id_accounts EXCEPT ![owner] = r.merchant]
    /\ UNCHANGED <<id_chunks, products, handed, allocs, releases>>

NextSwitch ==
    \/ \E owner \in Owners : AllocateNewChunk(owner)
    \/ \E owner \in Owners, payer \in Owners : SwitchOrAllocateChunk(owner, payer)
    \/ \E owner \in Owners : GenerateProductId(owner)

SpecSwitch == InitAlloc /\ [][NextSwitch]_vars

(* The chunks the owner's cursor holds: the active one, then the unused ones *)
CursorChunks(owner) ==
    <<merchant_id_accounts[owner].active_chunk>> \o merchant_id_accounts[owner].unused_chunks

(* C31: every chunk created for an owner is that owner's active_chunk or
   listed in unused_chunks, and is so exactly once. *)
C31_EveryChunkOnTheCursorOnce ==
    \A owner \in DOMAIN merchant_id_accounts :
        \A key \in ChunksOf(owner) : Occurrences(CursorChunks(owner), key) = 1

----------------------------------------------------------------------------
(* C32: active_chunk is the address derived from the owner and
   last_chunk_index, the address GenerateId derives, and the chunk there has
   chunk_index = last_chunk_index. *)
C32_ActiveChunkIsAtLastChunkIndex ==
    \A owner \in DOMAIN merchant_id_accounts :
        LET m == merchant_id_accounts[owner]
        IN  /\ m.active_chunk = ChunkPda(owner, to_le_bytes(m.last_chunk_index))
            /\ m.active_chunk \in DOMAIN id_chunks
                   => id_chunks[m.active_chunk].chunk_index = m.last_chunk_index

----------------------------------------------------------------------------
(* C33: every entry of a sales node's top_items is of a product the node
   lists in product_ids. *)
C33_TopItemsAreListed ==
    \A key \in DOMAIN sales_nodes :
        \A i \in 1..Len(sales_nodes[key].top_items) :
            sales_nodes[key].top_items[i].product_id \in Elems(sales_nodes[key].product_ids)

----------------------------------------------------------------------------
(* Reading the sales index *)

(* The discriminator #[account] gives SalesIndexNode: the first eight bytes
   of sha256("account:SalesIndexNode"), which begin the account's data *)
SALES_INDEX_NODE_DISCRIMINATOR == <<185, 183, 45, 92, 72, 101, 157, 210>>

(* node_data[8..] of a sales node, its first eight bytes: the data after the
   discriminator begins with sales_range_start and sales_range_end *)
SalesNodeDataAfter8(sales_node) ==
    to_le_bytes(sales_node.sales_range_start) \o to_le_bytes(sales_node.sales_range_end)

(* AccountDeserialize::try_deserialize as #[account] generates it: the
   buffer must begin with the discriminator. The buffer of a node whose two
   ranges spell the discriminator is read on, eight bytes out of place; no
   range of this model does *)
try_deserialize(buf_head, discriminator, account) ==
    IF buf_head # discriminator
    THEN [ok |-> FALSE, err |-> "AccountDiscriminatorMismatch", account |-> account]
    ELSE [ok |-> FALSE, err |-> "AccountDidNotDeserialize", account |-> account]

get_top_selling_products(sales_root, limit) ==
    LET d == try_deserialize(SalesNodeDataAfter8(sales_root),
                             SALES_INDEX_NODE_DISCRIMINATOR, sales_root)
    IN  IF ~d.ok THEN [ok |-> FALSE, err |-> d.err, ids |-> <<>>]
        ELSE [ok |-> TRUE, err |-> "", ids |-> Truncate(d.account.top_items, limit)]

(* GetTopSellingProducts: sales_root is an unchecked account; nothing is
   written *)
GetTopSellingProducts(key, limit) ==
    /\ key \in DOMAIN sales_nodes
    /\ LET r == get_top_selling_products(sales_nodes[key], limit)
       IN  last' = [op |-> "get_top_selling_products", ok |-> r.ok, err |-> r.err,
                    ids |-> r.ids, addr |-> key, arg |-> limit, note |-> ""]
    /\ UNCHANGED <<bloomVars, allocatorVars, keywordVars, indexVars>>

(* The fills the read specifications start from *)
MaxReadFill == 1

InitRead ==
    /\ NoFilters
    /\ global_root = initialize_system(DEFAULT_CHUNK_SIZE)
    /\ merchant_id_accounts = <<>>
    /\ id_chunks = <<>>
    /\ products = {}
    /\ last = NoResult
    /\ handed = {}
    /\ allocs = <<>>
    /\ releases = <<>>
    /\ keyword_roots = <<>>
    /\ keyword_shards = <<>>
    /\ kw_inserted = {}
    /\ price_nodes = <<>>
    /\ price_of = <<>>
    /\ \E n \in 0..MaxReadFill :
           sales_nodes = IF n = 0 THEN <<>>
                         ELSE (SalesNodePda(FillRange[1], FillRange[2]) :> AfterInserts(n))

NextTop ==
    \/ \E range \in SalesRanges, product_id \in UpdatedIds, sales \in SalesValues :
           AddProductToSalesIndexIfNeeded(range[1], range[2], product_id, sales)
    \/ \E range \in SalesRanges, product_id \in UpdatedIds :
           RemoveProductFromSalesIndex(SalesNodePda(range[1], range[2]), product_id)
    \/ \E old \in SalesRanges, new \in SalesRanges, product_id \in UpdatedIds,
          old_sales \in SalesValues, new_sales \in SalesValues :
           UpdateProductSalesIndex(SalesNodePda(old[1], old[2]),
                                   SalesNodePda(new[1], new[2]),
                                   product_id, old_sales, new_sales)
    \/ \E range \in SalesRanges, limit \in 0..MaxLimit :
           GetTopSellingProducts(SalesNodePda(range[1], range[2]), limit)

SpecTop == InitRead /\ [][NextTop]_vars

Least(a, b) == IF a < b THEN a ELSE b

(* C34: get_top_selling_products(limit) on a node that lists n products
   returns Ok with min(limit, n) records, each of a different product the
   node lists, in descending order of sales. *)
C34_TopSellingReturnsTheBestListed ==
    [][last'.op = "get_top_selling_products"
       => LET node == sales_nodes[last'.addr]
              top == last'.ids
          IN  /\ last'.ok
              /\ Len(top) = Least(last'.arg, Len(node.product_ids))
              /\ \A i \in 1..Len(top) : top[i].product_id \in Elems(node.product_ids)
              /\ \A i \in 1..Len(top), j \in 1..Len(top) :
                     i < j => /\ top[i].product_id # top[j].product_id
                              /\ top[i].sales >= top[j].sales]_vars

----------------------------------------------------------------------------
(* The product count of a keyword root *)

(* The shard accounts that exist at the seeds of a keyword *)
ShardsOfKeyword(keyword) == {key \in DOMAIN keyword_shards : key[2] = keyword}

RECURSIVE StoredIds(_)
StoredIds(keys) ==
    IF keys = {} THEN 0
    ELSE LET key == CHOOSE k \in keys : TRUE
         IN  Len(keyword_shards[key].product_ids) + StoredIds(keys \ {key})

(* C35: the total_products of every keyword root equals the number of ids
   stored in the shards that exist for its keyword. *)
C35_TotalProductsCountsStoredIds ==
    \A keyword \in Keywords :
        RootPda(keyword) \in DOMAIN keyword_roots
            => keyword_roots[RootPda(keyword)].total_products
                   = StoredIds(ShardsOfKeyword(keyword))

----------------------------------------------------------------------------
(* C36: while unused_chunks is not empty switch_or_allocate_chunk pops its
   last chunk and makes it the active chunk, creates no chunk, leaves
   last_global_id unchanged and does not advance last_chunk_index; only with
   an empty list does it advance last_chunk_index, by one and to at most
   MAX_CHUNKS_PER_MERCHANT. *)
C36_ReuseBeforeGrowth ==
    [][\A owner \in Owners, payer \in Owners :
          SwitchOrAllocateChunk(owner, payer) =>
              LET m == merchant_id_accounts[owner]
                  after == merchant_id_accounts'[owner]
              IN  IF m.unused_chunks # <<>>
                  THEN /\ last'.ok
                       /\ after.active_chunk = m.unused_chunks[Len(m.unused_chunks)]
                       /\ after.unused_chunks = SubSeq(m.unused_chunks, 1, Len(m.unused_chunks) - 1)
                       /\ after.last_chunk_index = m.last_chunk_index
                       /\ global_root'.last_global_id = global_root.last_global_id
                       /\ id_chunks' = id_chunks
                  ELSE IF last'.ok
                  THEN /\ after.last_chunk_index = m.last_chunk_index + 1
                       /\ after.last_chunk_index <= MAX_CHUNKS_PER_MERCHANT
                  ELSE after = m /\ global_root' = global_root]_vars

----------------------------------------------------------------------------
(* Searching a price node and a sales node by range *)

(* The discriminator #[account] gives PriceIndexNode: the first eight bytes
   of sha256("account:PriceIndexNode") *)
PRICE_INDEX_NODE_DISCRIMINATOR == <<140, 233, 236, 104, 100, 161, 6, 120>>

(* node_data[8..] of a price node, its first eight bytes: price_range_start *)
PriceNodeDataAfter8(price_node) == U64Bytes(price_node.price_range_start)

(* PriceIndexNode::get_products_in_range *)
price_get_products_in_range(node, min_price, max_price) ==
    IF min_price <= node.price_range_end /\ max_price >= node.price_range_start
    THEN node.product_ids
    ELSE <<>>

(* SalesIndexNode::get_products_in_range *)
sales_get_products_in_range(node, min_sales, max_sales) ==
    IF min_sales <= node.sales_range_end /\ max_sales >= node.sales_range_start
    THEN node.product_ids
    ELSE <<>>

(* all_products[start_index..end_index], or the empty Vec *)
paginate(all_products, offset, limit) ==
    LET start_index == offset
        end_index == Least(start_index + limit, Len(all_products))
    IN  IF start_index < Len(all_products)
        THEN SubSeq(all_products, start_index + 1, end_index)
        ELSE <<>>

search_price_range(price_node, min_price, max_price, offset, limit) ==
    IF ~(min_price <= max_price)
    THEN [ok |-> FALSE, err |-> "InvalidPriceRange", ids |-> <<>>]
    ELSE LET d == try_deserialize(PriceNodeDataAfter8(price_node),
                                  PRICE_INDEX_NODE_DISCRIMINATOR, price_node)
         IN  IF ~d.ok THEN [ok |-> FALSE, err |-> d.err, ids |-> <<>>]
             ELSE [ok |-> TRUE, err |-> "",
                   ids |-> paginate(price_get_products_in_range(d.account, min_price,
                                                                max_price),
                                    offset, limit)]

search_sales_range(sales_node, min_sales, max_sales, offset, limit) ==
    IF ~(min_sales <= max_sales)
    THEN [ok |-> FALSE, err |-> "InvalidSalesRange", ids |-> <<>>]
    ELSE LET d == try_deserialize(SalesNodeDataAfter8(sales_node),
                                  SALES_INDEX_NODE_DISCRIMINATOR, sales_node)
         IN  IF ~d.ok THEN [ok |-> FALSE, err |-> d.err, ids |-> <<>>]
             ELSE [ok |-> TRUE, err |-> "",
                   ids |-> paginate(sales_get_products_in_range(d.account, min_sales,
                                                                max_sales),
                                    offset, limit)]

(* The result of a range search: arg holds min, max, offset and limit *)
RangeResult(op, r, key, min, max, offset, limit) ==
    [op |-> op, ok |-> r.ok, err |-> r.err, ids |-> r.ids, addr |-> key,
     arg |-> <<min, max, offset, limit>>, note |-> ""]

(* SearchPriceRange: price_node is an unchecked account; nothing is written *)
SearchPriceRange(key, min_price, max_price, offset, limit) ==
    /\ key \in DOMAIN price_nodes
    /\ last' = RangeResult("search_price_range",
                           search_price_range(price_nodes[key], min_price, max_price,
                                              offset, limit),
                           key, min_price, max_price, offset, limit)
    /\ UNCHANGED <<bloomVars, allocatorVars, keywordVars, indexVars>>

(* SearchSalesRange: sales_node is an unchecked account; nothing is written *)
SearchSalesRange(key, min_sales, max_sales, offset, limit) ==
    /\ key \in DOMAIN sales_nodes
    /\ last' = RangeResult("search_sales_range",
                           search_sales_range(sales_nodes[key], min_sales, max_sales,
                                              offset, limit),
                           key, min_sales, max_sales, offset, limit)
    /\ UNCHANGED <<bloomVars, allocatorVars, keywordVars, indexVars>>

(* The prices inserted and the bounds searched for *)
SearchedPrices == {2, 3}

PriceBounds == {0, 2, 3}

SalesBounds == {0, 1, SALES_INTERVAL - 1}

NextRange ==
    \/ \E product_id \in IndexedIds, price \in SearchedPrices :
           AddProductToPriceIndex(product_id, ToU64(price), BucketOf(price)[1],
                                  BucketOf(price)[2])
    \/ \E product_id \in UpdatedIds, sales \in {0, 1} :
           AddProductToSalesIndexIfNeeded(FillRange[1], FillRange[2], product_id, sales)
    \/ \E key \in DOMAIN price_nodes, min_price \in PriceBounds, max_price \in PriceBounds,
          offset \in 0..MaxOffset, limit \in 0..MaxLimit :
           SearchPriceRange(key, min_price, max_price, offset, limit)
    \/ \E key \in DOMAIN sales_nodes, min_sales \in SalesBounds, max_sales \in SalesBounds,
          offset \in 0..MaxOffset, limit \in 0..MaxLimit :
           SearchSalesRange(key, min_sales, max_sales, offset, limit)

SpecRange == InitRead /\ [][NextRange]_vars

(* The ids a price node lists whose inserted price lies in [min, max] *)
PricedWithin(key, min_price, max_price) ==
    LET within(id) == /\ price_of[<<key, id>>] >= min_price
                      /\ price_of[<<key, id>>] <= max_price
    IN  SelectSeq(price_nodes[key].product_ids, within)

(* C37: search_price_range and search_sales_range fail with
   InvalidPriceRange / InvalidSalesRange when min > max; otherwise they
   return Ok with the elements at the positions [offset, offset + limit) of
   the list of the node's ids whose value lies in [min, max]. For a sales
   node, whose ids all have sales within the node's range, that list is a
   part of product_ids, and all of it when [min, max] covers the range. *)
C37_RangeSearchReturnsFilteredPage ==
    [][/\ last'.op = "search_price_range" =>
              IF last'.arg[1] > last'.arg[2]
              THEN ~last'.ok /\ last'.err = "InvalidPriceRange"
              ELSE /\ last'.ok
                   /\ last'.ids = Page(PricedWithin(last'.addr, last'.arg[1], last'.arg[2]),
                                       last'.arg[3], last'.arg[4])
       /\ last'.op = "search_sales_range" =>
              IF last'.arg[1] > last'.arg[2]
              THEN ~last'.ok /\ last'.err = "InvalidSalesRange"
              ELSE LET node == sales_nodes[last'.addr]
                   IN  /\ last'.ok
                       /\ Elems(last'.ids) \subseteq Elems(node.product_ids)
                       /\ (/\ last'.arg[1] <= node.sales_range_start
                           /\ last'.arg[2] >= node.sales_range_end)
                              => last'.ids = Page(node.product_ids, last'.arg[3],
                                                  last'.arg[4])]_vars

----------------------------------------------------------------------------
(* SpecEdge: the last offsets of a chunk that has one id more than its bitmap
   has bits.  The chunk is the one of a first allocate_new_chunk, filled by
   generate_product_id up to its last few ids. *)

MaxEdgeIds == 4        \* the fill stops at most this many ids before the last one

(* The state k successful generate_product_id calls lead to from a state
   whose active chunk is empty: each takes the next offset *)
AfterAllocations(s, k) ==
    IF k = 0 THEN s
    ELSE [s EXCEPT !.merchant.last_local_id = k - 1,
                   !.chunks[s.merchant.active_chunk] =
                       [@ EXCEPT !.next_available = k, !.bitmap = 0..(k - 1)]]

InitEdge ==
    \E n \in 0..MaxEdgeIds :
        LET k == BigChunkSize - 1 - n
            s == AfterAllocations(AfterAllocate(BigChunkSize), k)
            key == s.merchant.active_chunk
        IN  /\ NoFilters
            /\ global_root = s.root
            /\ merchant_id_accounts = ("m1" :> s.merchant)
            /\ id_chunks = s.chunks
            /\ products = {}
            /\ last = NoResult
            /\ handed = {<<key, s.chunks[key].start_id + i>> : i \in s.chunks[key].bitmap}
            /\ allocs = [c \in DOMAIN s.chunks |-> IF c = key THEN k ELSE 0]
            /\ releases = [c \in DOMAIN s.chunks |-> 0]
            /\ keyword_roots = <<>>
            /\ keyword_shards = <<>>
            /\ kw_inserted = {}
            /\ price_nodes = <<>>
            /\ price_of = <<>>
            /\ sales_nodes = <<>>

(* The ids released at the end of a chunk: its last two, and one on each side
   of its range *)
EdgeReleaseArgs(key) ==
    {id_chunks[key].start_id - 1, id_chunks[key].end_id - 1,
     id_chunks[key].end_id, id_chunks[key].end_id + 1}

NextEdge ==
    \/ \E owner \in Owners : GenerateProductId(owner)
    \/ \E owner \in Owners, count \in BatchCounts : BatchGenerateIds(owner, count)
    \/ \E owner \in DOMAIN merchant_id_accounts :
           \E id \in EdgeReleaseArgs(ActiveKey(owner)) : ReleaseId(ActiveKey(owner), id)

SpecEdge == InitEdge /\ [][NextEdge]_vars

(* The offsets a result's ids have in their chunk *)
OffsetsOf(c, ids) == [i \in 1..Len(ids) |-> ids[i] - c.start_id]

(* C38: every id generate_product_id or batch_generate_ids returns is
   start_id + k for an offset k >= the prior next_available whose bit was
   clear before the call and is set after it; batch_generate_ids succeeds
   only with 1 <= count <= MAX_BATCH_COUNT and then returns exactly count
   strictly increasing ids; afterwards next_available is one past the highest
   offset returned and the owner's last_local_id is that offset. *)
C38_ReturnedIdsAreFreshOffsets ==
    [][(last'.op \in {"generate_product_id", "batch_generate_ids"} /\ last'.ok)
       => LET c == id_chunks[last'.addr]
              after == id_chunks'[last'.addr]
              k == OffsetsOf(c, last'.ids)
          IN  /\ Len(k) >= 1
              /\ \A i \in 1..Len(k) :
                     /\ k[i] >= c.next_available
                     /\ ~is_id_used(c, k[i])
                     /\ is_id_used(after, k[i])
              /\ \A i \in 1..Len(k), j \in 1..Len(k) : i < j => k[i] < k[j]
              /\ last'.op = "batch_generate_ids"
                     => /\ last'.arg >= 1 /\ last'.arg <= MAX_BATCH_COUNT
                        /\ Len(k) = last'.arg
              /\ after.next_available = k[Len(k)] + 1
              /\ \E owner \in DOMAIN merchant_id_accounts :
                     /\ merchant_id_accounts'[owner] # merchant_id_accounts[owner]
                            \/ merchant_id_accounts[owner].last_local_id = k[Len(k)]
                     /\ merchant_id_accounts'[owner].last_local_id = k[Len(k)]
                     /\ merchant_id_accounts'[owner].active_chunk = last'.addr
                            \/ last'.op = "generate_product_id"]_vars

----------------------------------------------------------------------------
(* C39: release_id(chunk, id) with start_id <= id <= end_id returns Ok,
   clears the bit at offset id - start_id and changes nothing else of the
   chunk or of the owner's cursor; with id outside that range it fails with
   InvalidId and changes nothing; and no step decreases a chunk's
   next_available. *)
C39_ReleaseClearsExactlyOneBit ==
    [][/\ last'.op = "release_id" =>
              LET c == id_chunks[last'.addr]
                  id == last'.arg
              IN  /\ merchant_id_accounts' = merchant_id_accounts
                  /\ global_root' = global_root
                  /\ \A key \in DOMAIN id_chunks \ {last'.addr} :
                         id_chunks'[key] = id_chunks[key]
                  /\ IF id >= c.start_id /\ id <= c.end_id
                     THEN /\ last'.ok
                          /\ id_chunks'[last'.addr] =
                                 [c EXCEPT !.bitmap = @ \ {id - c.start_id}]
                     ELSE /\ ~last'.ok /\ last'.err = "InvalidId"
                          /\ id_chunks'[last'.addr] = c
       /\ \A key \in DOMAIN id_chunks :
              id_chunks'[key].next_available >= id_chunks[key].next_available]_vars

----------------------------------------------------------------------------
(* IdChunk::initialize_bitmap: the length of the Vec every chunk is created
   with; no operation resizes it *)
bitmap_len(c) == ID_CHUNK_BITMAP_SIZE

(* C40: every chunk's bitmap has ceil(capacity / 8) bytes, so that every
   local offset in [0, capacity) has a bit of its own in it. *)
C40_BitmapCoversCapacity ==
    \A key \in DOMAIN id_chunks :
        LET c == id_chunks[key]
        IN  /\ bitmap_len(c) = (capacity(c) + 7) \div 8
            /\ \A local_id \in 0..(capacity(c) - 1) : local_id \div 8 < bitmap_len(c)

====
